---- MODULE Spec2Model ----
(***************************************************************************)
(* qwik-ask: the chat session state machine (composables/useChat.ts) and   *)
(* the streaming provider clients (services/llm/gemini.ts, openai.ts,      *)
(* anthropic.ts).                                                          *)
(*                                                                         *)
(* Text is a sequence of characters, so that trim(), substring() and       *)
(* string concatenation are computed, not assumed.                         *)
(***************************************************************************)
EXTENDS Integers, Sequences, FiniteSets, TLC

\* ------------------------------------------------------------------ bounds
MaxSends == 2          \* sendMessage calls that are accepted in one run
MaxTokens == 2         \* onToken calls delivered in one run, over all streams
MaxLines == 2          \* lines of one simulated response body
MaxTitleLen == 3       \* characters of a completion text after its 'Title:' prefix
MaxTranscript == 5     \* messages of a transcript copyLastResponse is called on

\* --------------------------------------------------------- program constants
TitleMax == 50         \* trimmedContent.substring(0, 50)

VARIABLES
    \* ---- useChat.ts module-level refs
    messages,                \* ref<Message[]>
    isStreaming,             \* ref(false)
    streamError,             \* ref<string | null>
    currentAssistantMessage, \* ref<string>('')
    currentConversationId,   \* ref<string | null>
    \* ---- environment of the session
    streams,                 \* streamChat invocations that have not yet delivered their terminal callback
    titleJobs,               \* generateTitle promises that have not settled
    storeLog,                \* historyDb requests issued, in order
    storeMark,               \* how many of them were issued before the last resetChat/loadConversation
    titleLog,                \* generateTitle invocations, in order
    nextId,                  \* generateId(): ids handed out so far
    sends,                   \* accepted sendMessage calls so far
    tokens,                  \* onToken calls delivered so far
    lastOp,                  \* the operation that produced this state, with its input
    \* ---- one streamChat invocation of a provider client
    provider,                \* which client runs
    config,                  \* LlmConfig: apiKey, baseUrl
    pc,                      \* position inside streamChat
    http,                    \* what fetch() resolved to
    wire,                    \* symbols of the body the reader has not delivered yet
    buffer,                  \* let buffer = ''
    calls,                   \* callbacks invoked so far, in order
    requests,                \* fetch() calls issued, in order
    respLines,               \* the lines the server wrote (input, never changes)
    respClosed,              \* whether the server ended the last line with a newline (input)
    errorBody,               \* the body of a non-2xx response (input)
    \* ---- one generateTitle invocation
    providerId,              \* the provider argument of generateTitle (input)
    titleImpl,               \* which generateTitle/simpleCompletion runs
    tpc,                     \* position inside it
    rawText,                 \* the completion text the server answers with (input)
    fetched,                 \* what fetch() resolved to
    parsed,                  \* what response.json() resolved to
    completion,              \* what simpleCompletion returned
    rejected,                \* whether simpleCompletion rejected to its caller
    generatedTitle,          \* what generateTitle returned
    \* ---- one copyLastResponse call
    copyPc,                  \* position inside it
    copyResult,              \* what it returned
    writes,                  \* navigator.clipboard.writeText calls, in order
    \* ---- sendMessage statement by statement, and the store's promises
    sendPc,                  \* the statement sendMessage is at
    sendArgs,                \* content, trimmedContent, apiKey, isFirstMessage of the call
    streamCalls,             \* streamChat calls, in order: the key and the messages passed
    settled,                 \* store request (index of storeLog) -> TRUE resolved, FALSE rejected
    \* ---- the history panel
    clock,                   \* the time at which groupedConversations is evaluated (input)
    conversations,           \* const conversations = ref<Conversation[]>([])
    grouped,                 \* the value of groupedConversations
    gpc,                     \* whether it has been evaluated
    \* ---- one useSettings instance
    settings,                \* const settings: Ref<AppSettings | null> = ref(null)
    loading,                 \* const loading = ref(false)
    settingsError,           \* const error: Ref<string | null> = ref(null)
    invokes,                 \* the backend calls in flight
    invoked,                 \* how many operations were started
    settledOp,               \* the operation that settled last, and what its caller got
    \* ---- one useWindowResize instance
    isAnimating,             \* const isAnimating = ref(false)
    animations,              \* the animateResize calls past their guard
    windowHeight,            \* the height of the window
    resizes,                 \* how many animateResize calls were made
    lastResize,              \* the animateResize call made last, and whether it returned at once
    \* ---- the history database connection
    db,                      \* let db: Database | null = null
    loads,                   \* how many times Database.load was called
    dbCalls,                 \* the getDb calls waiting for Database.load
    dbOps,                   \* how many store operations were started
    handed,                  \* store operation -> the instance getDb returned to it
    \* ---- the search of the history panel
    searchQuery,             \* const searchQuery = ref('')
    historyLoading,          \* const loading = ref(false)
    queries,                 \* the store queries in flight (indices of searched)
    searched                 \* the search calls made, in order, and how each one ended

sessionVars == <<messages, isStreaming, streamError, currentAssistantMessage,
                 currentConversationId, streams, titleJobs, storeLog, storeMark, titleLog,
                 nextId, sends, tokens, lastOp>>
clientVars == <<provider, config, pc, http, wire, buffer, calls, requests, respLines, respClosed,
                errorBody>>
titleVars == <<providerId, titleImpl, tpc, rawText, fetched, parsed, completion, rejected, generatedTitle>>
copyVars == <<copyPc, copyResult, writes>>
sendVars == <<sendPc, sendArgs, streamCalls, settled>>
historyVars == <<clock, conversations, grouped, gpc>>
settingsVars == <<settings, loading, settingsError, invokes, invoked, settledOp>>
resizeVars == <<isAnimating, animations, windowHeight, resizes, lastResize>>
dbVars == <<db, loads, dbCalls, dbOps, handed>>
searchVars == <<searchQuery, historyLoading, queries, searched>>
moreVars == <<dbVars, searchVars>>
restVars == <<copyVars, sendVars, historyVars, settingsVars, resizeVars, moreVars>>
vars == <<sessionVars, clientVars, titleVars, restVars>>
\* what the actions of one part leave alone
beyondSession == <<clientVars, titleVars, restVars>>
beyondClient == <<sessionVars, titleVars, restVars>>
beyondTitle == <<sessionVars, clientVars, restVars>>
beyondCopy == <<isStreaming, streamError, currentAssistantMessage, currentConversationId,
                streams, titleJobs, storeLog, storeMark, titleLog, nextId, sends, tokens,
                clientVars, titleVars, sendVars, historyVars, settingsVars, resizeVars,
                moreVars>>
beyondSend == <<clientVars, titleVars, copyVars, historyVars, settingsVars, resizeVars,
                moreVars>>
beyondHistory == <<sessionVars, clientVars, titleVars, copyVars, sendVars, settingsVars,
                   resizeVars, moreVars>>
beyondSettings == <<sessionVars, clientVars, titleVars, copyVars, sendVars, historyVars,
                    resizeVars, moreVars>>
beyondResize == <<sessionVars, clientVars, titleVars, copyVars, sendVars, historyVars,
                  settingsVars, moreVars>>
beyondDb == <<sessionVars, clientVars, titleVars, copyVars, sendVars, historyVars,
              settingsVars, resizeVars, searchVars>>
beyondSearch == <<sessionVars, clientVars, titleVars, copyVars, sendVars, clock, grouped, gpc,
                  settingsVars, resizeVars, dbVars>>

\* ------------------------------------------------------------------ text
NoText == <<>>
Null == "null"                 \* streamError.value = null
NoConversation == 0            \* currentConversationId.value = null
NoBody == "-"                  \* no error response was received

IsSpace(c) == c \in {" ", "\t", "\r", "\n"}

RECURSIVE TrimStart(_)
TrimStart(s) == IF s # <<>> /\ IsSpace(Head(s)) THEN TrimStart(Tail(s)) ELSE s

RECURSIVE TrimEnd(_)
TrimEnd(s) == IF s # <<>> /\ IsSpace(s[Len(s)]) THEN TrimEnd(SubSeq(s, 1, Len(s) - 1)) ELSE s

\* String.prototype.trim()
Trim(s) == TrimEnd(TrimStart(s))

\* String.prototype.substring(0, n)
Substring0(s, n) == SubSeq(s, 1, IF Len(s) < n THEN Len(s) ELSE n)

\* ---------------------------------------------------------------- inputs
\* what the user types: blanks, a short question, and a question that is longer
\* than a title
LongText == [i \in 1..(TitleMax + 3) |-> IF i \in {1, TitleMax + 3} THEN " " ELSE "w"]
Texts == {<<" ">>, <<" ", "q", " ">>, LongText}
ApiKeys == {"", "key"}
Alphabet == <<"a", "b", "c", "d", "e", "f", "g", "h", "i", "j", "k", "l", "m", "n", "o", "p">>
ErrorMessages == {"boom"}                        \* messages a failing stream reports
KeyMissing == "API key is not configured. Please add your API key in Settings."
TitleResults == {<<>>, <<"T">>}                  \* what generateTitle resolves to
HistoryId == 100                                 \* a conversation of the history store
Now == 0                                         \* Date.now(): the clock is not modelled
\* what historyDb.getMessages returned: HistoryMessage rows
HistoryLists ==
    { <<>>,
      << [id |-> HistoryId + 1, conversation_id |-> HistoryId, role |-> "user",
          content |-> <<"q">>, created_at |-> HistoryId + 11],
         [id |-> HistoryId + 2, conversation_id |-> HistoryId, role |-> "assistant",
          content |-> <<"r">>, created_at |-> HistoryId + 12] >> }

\* ------------------------------------------------------------ the session
NoStream == [sid |-> 0, first |-> FALSE, n |-> 0, toks |-> NoText,
             solo |-> FALSE, reset |-> FALSE, loaded |-> FALSE, base |-> <<>>, user |-> <<>>]

\* The text delta a provider delivers next.  Every delta of a
\* run is a different character, so that no two concatenations coincide by accident.
Tokens == {<<Alphabet[tokens + 1]>>}

Op(name, text, s, ok) == [op |-> name, text |-> text, error |-> "", stream |-> s, ok |-> ok]

Last(seq) == seq[Len(seq)]
Front(seq) == SubSeq(seq, 1, Len(seq) - 1)

CreateConversationCall(id, title) ==
    [call |-> "createConversation", id |-> id, conv |-> id, role |-> "-", content |-> title]
AddMessageCall(id, conv, role, content) ==
    [call |-> "addMessage", id |-> id, conv |-> conv, role |-> role, content |-> content]
UpdateTitleCall(conv, title) ==
    [call |-> "updateConversationTitle", id |-> conv, conv |-> conv, role |-> "-", content |-> title]

\* onError callback body, as a function of the transcript
OnErrorMessages(msgs) ==
    IF Len(msgs) > 0 /\ Last(msgs).role = "assistant" /\ Last(msgs).content = NoText
    THEN Front(msgs)
    ELSE msgs

\* mutant: the content is written whatever the role of the last message
OnTokenMessages_AnyRole(msgs, acc) ==
    IF Len(msgs) > 0
    THEN [msgs EXCEPT ![Len(msgs)].content = acc]
    ELSE msgs

\* mutant: the accumulator is appended to the content instead of replacing it
OnTokenMessages_Appends(msgs, acc) ==
    IF Len(msgs) > 0 /\ Last(msgs).role = "assistant"
    THEN [msgs EXCEPT ![Len(msgs)].content = @ \o acc]
    ELSE msgs

\* onToken callback body, as a function of the transcript and the accumulator
OnTokenMessages(msgs, acc) ==
    IF Len(msgs) > 0 /\ Last(msgs).role = "assistant"
    THEN [msgs EXCEPT ![Len(msgs)].content = acc]
    ELSE msgs

\* mutant: the guard forgets the streaming flag
SendRejected_IgnoresStreaming(content) == Trim(content) = NoText

\* if (!content.trim() || isStreaming.value) return;
SendRejected(content) == Trim(content) = NoText \/ isStreaming

\* mutant: a conversation is created whenever none was loaded
IsFirstMessage_NotLoaded(msgs) == \A i \in 1..Len(msgs) : msgs[i].id < HistoryId

\* const isFirstMessage = messages.value.length === 0;
IsFirstMessage(msgs) == Len(msgs) = 0

SendMessage(content, apiKey) ==
    /\ sends < MaxSends \/ SendRejected(content)
    /\ IF SendRejected(content)
       THEN /\ lastOp' = Op("sendMessage", content, NoStream, FALSE)
            /\ UNCHANGED <<messages, isStreaming, streamError, currentAssistantMessage,
                           currentConversationId, streams, titleJobs, storeLog, storeMark,
                           titleLog, nextId, sends, tokens>>
       ELSE LET trimmedContent == Trim(content)
                isFirstMessage == IsFirstMessage(messages)
                convId == IF isFirstMessage THEN nextId + 1 ELSE currentConversationId
                ids == IF isFirstMessage THEN nextId + 1 ELSE nextId
                userMessage == [id |-> ids + 1, role |-> "user", content |-> trimmedContent,
                                timestamp |-> Now]
                assistantMessage == [id |-> ids + 2, role |-> "assistant", content |-> NoText,
                                     timestamp |-> Now]
                pushed == messages \o <<userMessage, assistantMessage>>
                created == IF isFirstMessage
                           THEN <<CreateConversationCall(convId, Substring0(trimmedContent, TitleMax))>>
                           ELSE <<>>
                saved == IF convId # NoConversation
                         THEN <<AddMessageCall(userMessage.id, convId, "user", trimmedContent)>>
                         ELSE <<>>
                s == [sid |-> assistantMessage.id, first |-> isFirstMessage, n |-> 0,
                      toks |-> NoText, solo |-> streams = {}, reset |-> FALSE, loaded |-> FALSE,
                      base |-> messages, user |-> <<userMessage>>]
            IN  /\ currentConversationId' = convId
                /\ storeLog' = storeLog \o created \o saved
                /\ nextId' = ids + 2
                /\ sends' = sends + 1
                /\ tokens' = tokens
                /\ currentAssistantMessage' = NoText
                /\ titleJobs' = titleJobs
                /\ UNCHANGED <<storeMark, titleLog>>
                /\ lastOp' = Op("sendMessage", content, s, TRUE)
                /\ IF apiKey = ""
                   THEN \* streamChat calls onError before its first await
                        /\ messages' = OnErrorMessages(pushed)
                        /\ streamError' = KeyMissing
                        /\ isStreaming' = FALSE
                        /\ streams' = streams
                   ELSE /\ messages' = pushed
                        /\ streamError' = Null
                        /\ isStreaming' = TRUE
                        /\ streams' = streams \cup {s}
    /\ UNCHANGED beyondSession

OnToken(s, token) ==
    /\ s \in streams
    /\ tokens < MaxTokens
    /\ tokens' = tokens + 1
    /\ LET acc == currentAssistantMessage \o token
           t == [s EXCEPT !.n = s.n + 1, !.toks = s.toks \o token]
       IN  /\ currentAssistantMessage' = acc
           /\ messages' = OnTokenMessages(messages, acc)
           /\ streams' = (streams \ {s}) \cup {t}
           /\ lastOp' = Op("onToken", token, t, TRUE)
    /\ UNCHANGED <<isStreaming, streamError, currentConversationId, titleJobs, storeLog,
                   storeMark, titleLog, nextId, sends>>
    /\ UNCHANGED beyondSession

\* mutant: the assistant message is stored whatever its content
OnComplete_PersistsEmpty(s) ==
    /\ s \in streams
    /\ LET persist == /\ currentConversationId # NoConversation
                      /\ Len(messages) > 0
                      /\ Last(messages).role = "assistant"
           title == persist /\ s.first /\ Len(messages) = 2
       IN  /\ isStreaming' = FALSE
           /\ storeLog' = IF persist
                          THEN Append(storeLog, AddMessageCall(Last(messages).id,
                                   currentConversationId, "assistant", Last(messages).content))
                          ELSE storeLog
           /\ titleJobs' = IF title
                           THEN titleJobs \cup {[conv |-> currentConversationId,
                                                 user |-> messages[1].content,
                                                 k |-> Len(titleLog) + 1]}
                           ELSE titleJobs
           /\ titleLog' = IF title
                          THEN Append(titleLog, [conv |-> currentConversationId,
                                                 user |-> messages[1].content,
                                                 sid |-> s.sid])
                          ELSE titleLog
    /\ streams' = streams \ {s}
    /\ lastOp' = Op("onComplete", NoText, s, TRUE)
    /\ UNCHANGED <<messages, streamError, currentAssistantMessage, currentConversationId,
                   storeMark, nextId, sends, tokens>>
    /\ UNCHANGED beyondSession

OnComplete(s) ==
    /\ s \in streams
    /\ LET persist == /\ currentConversationId # NoConversation
                      /\ Len(messages) > 0
                      /\ Last(messages).role = "assistant"
                      /\ Last(messages).content # NoText
           title == persist /\ s.first /\ Len(messages) = 2
       IN  /\ isStreaming' = FALSE
           /\ storeLog' = IF persist
                          THEN Append(storeLog, AddMessageCall(Last(messages).id,
                                   currentConversationId, "assistant", Last(messages).content))
                          ELSE storeLog
           /\ titleJobs' = IF title
                           THEN titleJobs \cup {[conv |-> currentConversationId,
                                                 user |-> messages[1].content,
                                                 k |-> Len(titleLog) + 1]}
                           ELSE titleJobs
           /\ titleLog' = IF title
                          THEN Append(titleLog, [conv |-> currentConversationId,
                                                 user |-> messages[1].content,
                                                 sid |-> s.sid])
                          ELSE titleLog
    /\ streams' = streams \ {s}
    /\ lastOp' = Op("onComplete", NoText, s, TRUE)
    /\ UNCHANGED <<messages, streamError, currentAssistantMessage, currentConversationId,
                   storeMark, nextId, sends, tokens>>
    /\ UNCHANGED beyondSession

\* mutant: onError forgets to clear the streaming flag
OnError_KeepsStreaming(s, error) ==
    /\ s \in streams
    /\ streamError' = error
    /\ messages' = OnErrorMessages(messages)
    /\ streams' = streams \ {s}
    /\ lastOp' = [Op("onError", NoText, s, TRUE) EXCEPT !.error = error]
    /\ UNCHANGED <<isStreaming, currentAssistantMessage, currentConversationId, titleJobs,
                   storeLog, storeMark, titleLog, nextId, sends, tokens>>
    /\ UNCHANGED beyondSession

OnError(s, error) ==
    /\ s \in streams
    /\ streamError' = error
    /\ isStreaming' = FALSE
    /\ messages' = OnErrorMessages(messages)
    /\ streams' = streams \ {s}
    /\ lastOp' = [Op("onError", NoText, s, TRUE) EXCEPT !.error = error]
    /\ UNCHANGED <<currentAssistantMessage, currentConversationId, titleJobs, storeLog,
                   storeMark, titleLog, nextId, sends, tokens>>
    /\ UNCHANGED beyondSession

\* resetChat and loadConversation cancel nothing: the streams stay in flight
AfterReset(ss) == {[s EXCEPT !.reset = TRUE] : s \in ss}
AfterLoad(ss) == {[s EXCEPT !.reset = TRUE, !.loaded = TRUE] : s \in ss}

\* the five refs of the session, as one value
Refs ==
    [messages |-> messages, isStreaming |-> isStreaming, streamError |-> streamError,
     currentAssistantMessage |-> currentAssistantMessage,
     currentConversationId |-> currentConversationId]

\* mutant: the conversation id survives the reset
resetChat_KeepsConversation(refs) ==
    [refs EXCEPT !.messages = <<>>, !.isStreaming = FALSE, !.streamError = Null,
                 !.currentAssistantMessage = NoText]

\* the assignments of resetChat, as a function of the refs
resetChat(refs) ==
    [messages |-> <<>>, isStreaming |-> FALSE, streamError |-> Null,
     currentAssistantMessage |-> NoText, currentConversationId |-> NoConversation]

ResetChat ==
    /\ messages' = resetChat(Refs).messages
    /\ isStreaming' = resetChat(Refs).isStreaming
    /\ streamError' = resetChat(Refs).streamError
    /\ currentAssistantMessage' = resetChat(Refs).currentAssistantMessage
    /\ currentConversationId' = resetChat(Refs).currentConversationId
    /\ streams' = AfterReset(streams)
    /\ lastOp' = Op("resetChat", NoText, NoStream, TRUE)
    /\ storeMark' = Len(storeLog)
    /\ UNCHANGED <<titleJobs, storeLog, titleLog, nextId, sends, tokens>>
    /\ UNCHANGED beyondSession

\* mutant: the message gets the time of loading
ToMessage_StampedNow(m) ==
    [id |-> m.id, role |-> m.role, content |-> m.content, timestamp |-> Now]

\* (m) => ({ id: m.id, role: m.role, content: m.content, timestamp: m.created_at })
ToMessage(m) ==
    [id |-> m.id, role |-> m.role, content |-> m.content, timestamp |-> m.created_at]

LoadConversation(conversationId, historyMessages) ==
    /\ messages' = [i \in 1..Len(historyMessages) |-> ToMessage(historyMessages[i])]
    /\ isStreaming' = FALSE
    /\ streamError' = Null
    /\ currentAssistantMessage' = NoText
    /\ currentConversationId' = conversationId
    /\ streams' = AfterLoad(streams)
    /\ lastOp' = Op("loadConversation", NoText, NoStream, TRUE)
    /\ storeMark' = Len(storeLog)
    /\ UNCHANGED <<titleJobs, storeLog, titleLog, nextId, sends, tokens>>
    /\ UNCHANGED beyondSession

\* mutant: the title goes to the conversation that is current when it arrives
TitleResolved_CurrentConversation(j, title) ==
    /\ j \in titleJobs
    /\ titleJobs' = titleJobs \ {j}
    /\ storeLog' = IF title # NoText /\ currentConversationId # NoConversation
                   THEN Append(storeLog, UpdateTitleCall(currentConversationId, title))
                   ELSE storeLog
    /\ lastOp' = Op("titleResolved", title, NoStream, TRUE)
    /\ UNCHANGED <<messages, isStreaming, streamError, currentAssistantMessage,
                   currentConversationId, streams, storeMark, titleLog, nextId, sends, tokens>>
    /\ UNCHANGED beyondSession

\* mutant: the title is stored without looking at it
TitleResolved_AlwaysUpdates(j, title) ==
    /\ j \in titleJobs
    /\ titleJobs' = titleJobs \ {j}
    /\ storeLog' = Append(storeLog, UpdateTitleCall(j.conv, title))
    /\ lastOp' = Op("titleResolved", title, NoStream, TRUE)
    /\ UNCHANGED <<messages, isStreaming, streamError, currentAssistantMessage,
                   currentConversationId, streams, storeMark, titleLog, nextId, sends, tokens>>
    /\ UNCHANGED beyondSession

\* generateTitle(...).then((title) => { if (title && convId) ... })
TitleResolved(j, title) ==
    /\ j \in titleJobs
    /\ titleJobs' = titleJobs \ {j}
    /\ storeLog' = IF title # NoText /\ j.conv # NoConversation
                   THEN Append(storeLog, UpdateTitleCall(j.conv, title))
                   ELSE storeLog
    /\ lastOp' = Op("titleResolved", title, NoStream, TRUE)
    /\ UNCHANGED <<messages, isStreaming, streamError, currentAssistantMessage,
                   currentConversationId, streams, storeMark, titleLog, nextId, sends, tokens>>
    /\ UNCHANGED beyondSession

SessionInit ==
    /\ messages = <<>>
    /\ isStreaming = FALSE
    /\ streamError = Null
    /\ currentAssistantMessage = NoText
    /\ currentConversationId = NoConversation
    /\ streams = {}
    /\ titleJobs = {}
    /\ storeLog = <<>>
    /\ storeMark = 0
    /\ titleLog = <<>>
    /\ nextId = 0
    /\ sends = 0
    /\ tokens = 0
    /\ lastOp = Op("init", NoText, NoStream, TRUE)

ClientIdle ==
    /\ provider = "gemini"
    /\ config = [apiKey |-> "", baseUrl |-> <<>>]
    /\ pc = "idle"
    /\ http = "none"
    /\ wire = <<>>
    /\ buffer = <<>>
    /\ calls = <<>>
    /\ requests = <<>>
    /\ respLines = <<>>
    /\ respClosed = TRUE
    /\ errorBody = NoBody

TitleIdle ==
    /\ providerId = "gemini"
    /\ titleImpl = "gemini"
    /\ tpc = "idle"
    /\ rawText = <<>>
    /\ fetched = "none"
    /\ parsed = "none"
    /\ completion = <<>>
    /\ rejected = FALSE
    /\ generatedTitle = <<>>

CopyIdle ==
    /\ copyPc = "idle"
    /\ copyResult = FALSE
    /\ writes = <<>>

\* the parts that have a specification of their own are at rest
NoArgs == [content |-> NoText, trimmedContent |-> NoText, apiKey |-> "", isFirstMessage |-> FALSE]

SendIdle ==
    /\ sendPc = "idle"
    /\ sendArgs = NoArgs
    /\ streamCalls = <<>>
    /\ settled = <<>>

NoGroups == [today |-> <<>>, yesterday |-> <<>>, lastWeek |-> <<>>, older |-> <<>>]

HistoryIdle ==
    /\ clock = 0
    /\ conversations = <<>>
    /\ grouped = NoGroups
    /\ gpc = "idle"

NoOperation == [id |-> 0, op |-> "none", ok |-> TRUE, raised |-> FALSE, message |-> Null,
                result |-> Null, before |-> Null, overlapped |-> FALSE]

\* the state of a fresh useSettings()
SettingsInit ==
    /\ settings = Null
    /\ loading = FALSE
    /\ settingsError = Null
    /\ invokes = {}
    /\ invoked = 0
    /\ settledOp = NoOperation

minHeight == 0
NoResize == [id |-> 0, target |-> minHeight, noop |-> FALSE]

\* the state of a fresh useWindowResize(), the window collapsed
ResizeInit ==
    /\ isAnimating = FALSE
    /\ animations = {}
    /\ windowHeight = minHeight
    /\ resizes = 0
    /\ lastResize = NoResize

\* Database objects are numbered by the load that made them
NoDatabase == 0

\* the module historyDb.ts as loaded
DbInit ==
    /\ db = NoDatabase
    /\ loads = 0
    /\ dbCalls = {}
    /\ dbOps = 0
    /\ handed = <<>>

\* the shared refs of useHistory.ts as loaded
SearchInit ==
    /\ searchQuery = NoText
    /\ historyLoading = FALSE
    /\ queries = {}
    /\ searched = <<>>

MoreIdle == DbInit /\ SearchInit

RestIdle == CopyIdle /\ SendIdle /\ HistoryIdle /\ SettingsInit /\ ResizeInit /\ MoreIdle

Init == SessionInit /\ ClientIdle /\ TitleIdle /\ RestIdle

Next ==
    \/ \E content \in Texts, apiKey \in ApiKeys : SendMessage(content, apiKey)
    \/ \E s \in streams, token \in Tokens : OnToken(s, token)
    \/ \E s \in streams : OnComplete(s)
    \/ \E s \in streams, error \in ErrorMessages : OnError(s, error)
    \/ ResetChat
    \/ \E historyMessages \in HistoryLists : LoadConversation(HistoryId, historyMessages)
    \/ \E j \in titleJobs, title \in TitleResults : TitleResolved(j, title)

Spec == Init /\ [][Next]_vars

\* ------------------------------------------------------ the provider clients
\* The response body is a sequence of symbols: a newline, whitespace, the
\* 'data: ' prefix, and the characters of a JSON payload.
NL == "\n"
CR == "\r"
DataPrefix == "data: "
Done == "[DONE]"               \* the payload OpenAI ends a stream with
Colon == ":"                   \* starts an SSE comment line
EventField == "event: x"       \* an SSE line that is no data line
ErrorPayload == "error"        \* the body of a JSON object that reports an error
TextChars == {"a", "b"}        \* characters of a text delta

Providers == {"gemini", "openai", "anthropic"}
\* A URL is the sequence of its parts: the scheme, the labels of the host, and
\* what follows the host; 'localhost' and '127.0.0.1' are parts of their own.
NoUrl == <<>>                  \* config.baseUrl is undefined or ''
DEFAULT_BASE_URL == <<"https://", "api.openai.com", "/", "v1">>
GEMINI_API_BASE == <<"https://", "generativelanguage.googleapis.com", "/", "v1beta", "/", "models">>
ANTHROPIC_API_BASE == <<"https://", "api.anthropic.com", "/", "v1">>
LocalUrl == <<"http://", "localhost", ":", "11434", "/", "v1">>
LocalIpUrl == <<"http://", "127.0.0.1", ":", "11434", "/", "v1">>
RemoteUrl == <<"https://", "llm.example.com", "/", "v1">>
LookalikeUrl == <<"https://", "localhost", ".example.com", "/", "v1">>
PathUrl == <<"https://", "llm.example.com", "/", "localhost", "/", "v1">>
BaseUrls == {NoUrl, LocalUrl, LocalIpUrl, RemoteUrl, LookalikeUrl, PathUrl}
Configs ==
    {[apiKey |-> "", baseUrl |-> u] : u \in BaseUrls}
        \cup {[apiKey |-> "key", baseUrl |-> NoUrl], [apiKey |-> "key", baseUrl |-> LocalUrl]}

\* String.prototype.includes, on the parts of a URL
Includes(url, part) == \E i \in 1..Len(url) : url[i] = part

\* config.baseUrl || DEFAULT_BASE_URL
BaseUrl(cfg) == IF cfg.baseUrl = NoUrl THEN DEFAULT_BASE_URL ELSE cfg.baseUrl

\* baseUrl.includes('localhost') || baseUrl.includes('127.0.0.1')
IsLocalEndpoint(baseUrl) == Includes(baseUrl, "localhost") \/ Includes(baseUrl, "127.0.0.1")

\* where the request of a client goes
Endpoint(p, cfg) ==
    IF p = "openai" THEN BaseUrl(cfg)
    ELSE IF p = "gemini" THEN GEMINI_API_BASE
    ELSE ANTHROPIC_API_BASE

\* The lines a server may write.
LineKinds ==
    { <<>>,
      <<DataPrefix, "{", "a", "}">>,
      <<DataPrefix, "{", "b", "}", CR>>,
      <<DataPrefix, "{", "}">>,
      <<DataPrefix, "{", ErrorPayload, "}">>,
      <<DataPrefix, "{", "a">>,
      <<DataPrefix, Done>>,
      <<Colon, "a">>,
      <<EventField>> }

RECURSIVE Flatten(_)
\* the body text of a list of lines, a newline after each
Flatten(lines) ==
    IF lines = <<>> THEN <<>> ELSE Head(lines) \o <<NL>> \o Flatten(Tail(lines))

\* the body text the server sends: when it does not close the last line, the
\* final newline is missing
Body(lines, closed) ==
    IF closed \/ lines = <<>> THEN Flatten(lines) ELSE Front(Flatten(lines))

RECURSIVE Split(_)
\* String.prototype.split('\n'): one more piece than there are newlines
Split(s) ==
    IF \A i \in 1..Len(s) : s[i] # NL
    THEN <<s>>
    ELSE LET k == CHOOSE i \in 1..Len(s) : s[i] = NL /\ \A j \in 1..(i - 1) : s[j] # NL
         IN  <<SubSeq(s, 1, k - 1)>> \o Split(SubSeq(s, k + 1, Len(s)))

StartsWith(s, c) == Len(s) > 0 /\ s[1] = c

\* JSON.parse of the payload: ok is FALSE when it throws
ParseJson(jsonStr) ==
    LET t == Trim(jsonStr)
        inner == SubSeq(t, 2, Len(t) - 1)
    IN  IF Len(t) >= 2 /\ t[1] = "{" /\ t[Len(t)] = "}"
           /\ (inner = <<ErrorPayload>> \/ \A i \in 1..Len(inner) : inner[i] \in TextChars)
        THEN [ok |-> TRUE,
              kind |-> IF inner = <<ErrorPayload>> THEN "error"
                       ELSE IF inner = <<>> THEN "other" ELSE "delta",
              text |-> IF inner = <<ErrorPayload>> THEN <<>> ELSE inner]
        ELSE [ok |-> FALSE, kind |-> "other", text |-> <<>>]

Skip == [cb |-> "none", arg |-> <<>>]
Token(text) == [cb |-> "onToken", arg |-> text]
Complete == [cb |-> "onComplete", arg |-> <<>>]
Error(message) == [cb |-> "onError", arg |-> message]
Terminal(c) == c.cb \in {"onComplete", "onError"}

\* what a parsed payload makes the loop body do
OnData(data) ==
    IF ~data.ok THEN Skip
    ELSE IF data.kind = "error" THEN Error("stream error")
    ELSE IF data.text # <<>> THEN Token(data.text)
    ELSE Skip

\* the body of `for (const line of lines)`, per client
GeminiLine(line) ==
    IF StartsWith(line, DataPrefix)
    THEN LET jsonStr == Trim(Tail(line))
         IN  IF jsonStr = <<>> THEN Skip ELSE OnData(ParseJson(jsonStr))
    ELSE Skip

OpenAiLine(line) ==
    LET trimmedLine == Trim(line)
    IN  IF trimmedLine = <<>> \/ trimmedLine = <<DataPrefix, Done>> THEN Skip
        ELSE IF StartsWith(trimmedLine, DataPrefix) THEN OnData(ParseJson(Tail(trimmedLine)))
        ELSE Skip

AnthropicLine(line) ==
    LET trimmedLine == Trim(line)
    IN  IF trimmedLine = <<>> \/ StartsWith(trimmedLine, Colon) THEN Skip
        ELSE IF StartsWith(trimmedLine, DataPrefix) THEN OnData(ParseJson(Tail(trimmedLine)))
        ELSE Skip

LineCallback(p, line) ==
    IF p = "gemini" THEN GeminiLine(line)
    ELSE IF p = "openai" THEN OpenAiLine(line)
    ELSE AnthropicLine(line)

RECURSIVE ProcessLines_KeepsGoing(_, _)
\* mutant: the loop does not return after an error event
ProcessLines_KeepsGoing(p, lines) ==
    IF lines = <<>> THEN <<>>
    ELSE LET c == LineCallback(p, Head(lines))
         IN  IF c.cb = "none" THEN ProcessLines_KeepsGoing(p, Tail(lines))
             ELSE <<c>> \o ProcessLines_KeepsGoing(p, Tail(lines))

RECURSIVE ProcessLines(_, _)
\* the for loop over the complete lines of one chunk: the callbacks it makes;
\* an error event returns from streamChat
ProcessLines(p, lines) ==
    IF lines = <<>> THEN <<>>
    ELSE LET c == LineCallback(p, Head(lines))
         IN  IF c.cb = "onError" THEN <<c>>
             ELSE IF c.cb = "onToken" THEN <<c>> \o ProcessLines(p, Tail(lines))
             ELSE ProcessLines(p, Tail(lines))

\* if (!config.apiKey) ...   /   if (!config.apiKey && !isLocalEndpoint) ...
KeyRejected(p, cfg) ==
    IF p = "openai"
    THEN cfg.apiKey = "" /\ ~IsLocalEndpoint(BaseUrl(cfg))
    ELSE cfg.apiKey = ""

\* streamChat up to its first await
StreamChat ==
    /\ pc = "start"
    /\ IF KeyRejected(provider, config)
       THEN /\ calls' = Append(calls, Error(KeyMissing))
            /\ pc' = "done"
            /\ requests' = requests
       ELSE /\ requests' = Append(requests, [baseUrl |-> Endpoint(provider, config),
                                              authorization |-> provider = "openai"
                                                                /\ config.apiKey # ""])
            /\ pc' = "fetch"
            /\ calls' = calls
    /\ UNCHANGED <<provider, config, http, wire, buffer, respLines, respClosed, errorBody>>
    /\ UNCHANGED beyondClient

\* bodies of a non-2xx response: text that is no JSON, JSON without an
\* error.message, JSON with an empty one, JSON with a message
ErrorBodies == {"<html>", "{}", "{error:{message:''}}", "{error:{message:'quota'}}"}

\* await response.json().catch(() => ({})), then errorData?.error?.message
ErrorDataMessage(body) ==
    IF body = "{error:{message:'quota'}}" THEN "quota" ELSE ""

HttpError == "HTTP error 401"

\* errorData?.error?.message || `HTTP error ${response.status}`
ErrorMessage(body) ==
    IF ErrorDataMessage(body) # "" THEN ErrorDataMessage(body) ELSE HttpError

\* mutant: a non-2xx response is reported and then read like a good one
FetchSettles_ReadsErrorBody(outcome, body) ==
    /\ pc = "fetch"
    /\ http' = outcome
    /\ errorBody' = IF outcome = "status" THEN body ELSE NoBody
    /\ IF outcome = "throws" THEN
            /\ calls' = Append(calls, Error("network error"))
            /\ pc' = "done"
       ELSE IF outcome = "status" THEN
            /\ calls' = Append(calls, Error(ErrorMessage(body)))
            /\ pc' = "read"
       ELSE IF outcome = "nobody" THEN
            /\ calls' = Append(calls, Error("No response body received"))
            /\ pc' = "done"
       ELSE /\ calls' = calls
            /\ pc' = "read"
    /\ UNCHANGED <<provider, config, wire, buffer, requests, respLines, respClosed>>
    /\ UNCHANGED beyondClient

\* await fetch(...) settles: it throws, or resolves to a response
FetchSettles(outcome, body) ==
    /\ pc = "fetch"
    /\ http' = outcome
    /\ errorBody' = IF outcome = "status" THEN body ELSE NoBody
    /\ IF outcome = "throws" THEN
            /\ calls' = Append(calls, Error("network error"))
            /\ pc' = "done"
       ELSE IF outcome = "status" THEN
            /\ calls' = Append(calls, Error(ErrorMessage(body)))
            /\ pc' = "done"
       ELSE IF outcome = "nobody" THEN
            /\ calls' = Append(calls, Error("No response body received"))
            /\ pc' = "done"
       ELSE /\ calls' = calls
            /\ pc' = "read"
    /\ UNCHANGED <<provider, config, wire, buffer, requests, respLines, respClosed>>
    /\ UNCHANGED beyondClient

\* mutant: the read loop goes on after an error event
ReadChunk_KeepsReading(n) ==
    /\ pc = "read"
    /\ n \in 1..Len(wire)
    /\ LET pieces == Split(buffer \o SubSeq(wire, 1, n))
           made == ProcessLines(provider, Front(pieces))
       IN  /\ buffer' = Last(pieces)
           /\ calls' = calls \o made
           /\ pc' = "read"
    /\ wire' = SubSeq(wire, n + 1, Len(wire))
    /\ UNCHANGED <<provider, config, http, requests, respLines, respClosed, errorBody>>
    /\ UNCHANGED beyondClient

\* await reader.read() resolves with the next n symbols of the body
ReadChunk(n) ==
    /\ pc = "read"
    /\ n \in 1..Len(wire)
    /\ LET pieces == Split(buffer \o SubSeq(wire, 1, n))
           made == ProcessLines(provider, Front(pieces))
       IN  /\ buffer' = Last(pieces)
           /\ calls' = calls \o made
           /\ pc' = IF made # <<>> /\ Terminal(Last(made)) THEN "done" ELSE "read"
    /\ wire' = SubSeq(wire, n + 1, Len(wire))
    /\ UNCHANGED <<provider, config, http, requests, respLines, respClosed, errorBody>>
    /\ UNCHANGED beyondClient

\* await reader.read() resolves with done
ReadDone ==
    /\ pc = "read"
    /\ wire = <<>>
    /\ calls' = Append(calls, Complete)
    /\ pc' = "done"
    /\ UNCHANGED <<provider, config, http, wire, buffer, requests, respLines, respClosed, errorBody>>
    /\ UNCHANGED beyondClient

\* await reader.read() throws
ReadThrows ==
    /\ pc = "read"
    /\ http' = "broken"
    /\ calls' = Append(calls, Error("network error"))
    /\ pc' = "done"
    /\ UNCHANGED <<provider, config, wire, buffer, requests, respLines, respClosed, errorBody>>
    /\ UNCHANGED beyondClient

RECURSIVE SeqsUpTo(_, _)
SeqsUpTo(S, n) ==
    IF n = 0 THEN {<<>>}
    ELSE LET shorter == SeqsUpTo(S, n - 1)
         IN  shorter \cup {Append(q, x) : q \in shorter, x \in S}

ClientInit ==
    /\ provider \in Providers
    /\ config \in Configs
    /\ pc = "start"
    /\ http = "none"
    /\ respLines \in SeqsUpTo(LineKinds, MaxLines)
    /\ respClosed \in BOOLEAN
    /\ wire = Body(respLines, respClosed)
    /\ buffer = <<>>
    /\ calls = <<>>
    /\ requests = <<>>
    /\ errorBody = NoBody

ClientNext ==
    \/ StreamChat
    \/ \E outcome \in {"ok", "status", "nobody", "throws"}, body \in ErrorBodies :
          FetchSettles(outcome, body)
    \/ \E n \in 1..Len(wire) : ReadChunk(n)
    \/ ReadDone
    \/ ReadThrows

ClientStart == SessionInit /\ ClientInit /\ TitleIdle /\ RestIdle

ClientSpec == ClientStart /\ [][ClientNext]_vars

\* ------------------------------------------------------- title generation
\* generateTitle of services/llm/index.ts over the simpleCompletion of a client,
\* and the older generateTitle of services/gemini.ts ("legacy").
TitleImpls == Providers \cup {"legacy"}

\* the LlmProvider identifiers, and one the type does not list
UnknownId == "mistral"
ProviderIds == {"gemini", "openai", "anthropic", "custom", UnknownId}
NoProvider == "no provider"
NoClient == "no client"
Unknown == "Unknown provider"

Quotes == {"\"", "'"}
TitleChars == {"a", " "} \cup Quotes
TitlePrefixes ==
    { <<>>,
      <<"T", "i", "t", "l", "e", ":">>,
      <<"t", "i", "t", "l", "e", ":">>,
      <<"T", "I", "T", "L", "E", ":">> }

\* the completion texts a server may answer with
RawTitles ==
    {prefix \o gap \o body : prefix \in TitlePrefixes, gap \in {<<>>, <<" ">>},
                              body \in SeqsUpTo(TitleChars, MaxTitleLen)}

\* the i flag of the regular expression
Lower(c) ==
    IF c = "T" THEN "t" ELSE IF c = "I" THEN "i" ELSE IF c = "L" THEN "l"
    ELSE IF c = "E" THEN "e" ELSE c

\* title.replace(/^Title:\s*/i, '')
StripTitlePrefix(s) ==
    IF Len(s) >= 6 /\ [i \in 1..6 |-> Lower(s[i])] = <<"t", "i", "t", "l", "e", ":">>
    THEN TrimStart(SubSeq(s, 7, Len(s)))
    ELSE s

\* title.replace(/["']/g, '')
RemoveQuotes(s) == SelectSeq(s, LAMBDA c : c \notin Quotes)

\* cleanTitle of services/llm/index.ts
cleanTitle(s) == Trim(RemoveQuotes(StripTitlePrefix(s)))

\* the clean-up of the legacy generateTitle: no trim at the end
LegacyClean(s) == RemoveQuotes(StripTitlePrefix(s))

\* mutant: an identifier the switch does not list gets the OpenAI-style client
getProvider_DefaultsToOpenAi(id) ==
    CASE id = "gemini" -> "gemini"
      [] id = "openai" -> "openai"
      [] id = "anthropic" -> "anthropic"
      [] OTHER -> "openai"

\* getProvider of services/llm/index.ts: the client module of a provider
\* identifier, Unknown standing for the thrown Error
getProvider(id) ==
    CASE id = "gemini" -> "gemini"
      [] id = "openai" -> "openai"
      [] id = "anthropic" -> "anthropic"
      [] id = "custom" -> "openai"
      [] OTHER -> Unknown

\* const llmProvider = getProvider(provider), the first statement of generateTitle
GetProvider ==
    /\ tpc = "start"
    /\ providerId # NoProvider
    /\ LET client == getProvider(providerId) IN
         IF client = Unknown
         THEN /\ rejected' = TRUE         \* throw new Error(`Unknown provider: ...`)
              /\ tpc' = "returned"
              /\ UNCHANGED titleImpl
         ELSE /\ titleImpl' = client
              /\ tpc' = "resolved"
              /\ UNCHANGED rejected
    /\ UNCHANGED <<providerId, rawText, fetched, parsed, completion, generatedTitle>>
    /\ UNCHANGED beyondTitle

\* simpleCompletion / the legacy generateTitle up to its first await
SimpleCompletion ==
    /\ tpc = "resolved" \/ (tpc = "start" /\ providerId = NoProvider)
    /\ tpc' = "fetch"
    /\ UNCHANGED <<providerId, titleImpl, rawText, fetched, parsed, completion, rejected, generatedTitle>>
    /\ UNCHANGED beyondTitle

\* await fetch(...) settles
CompletionFetchSettles(outcome) ==
    /\ tpc = "fetch"
    /\ fetched' = outcome
    /\ tpc' = IF outcome = "ok" THEN "json" ELSE "returned"
    /\ completion' = <<>>            \* catch (e) { return "" }, if (!response.ok) return ""
    /\ UNCHANGED <<providerId, titleImpl, rawText, parsed, rejected, generatedTitle>>
    /\ UNCHANGED beyondTitle

\* mutant: response.json() is awaited outside the try block
ResponseJson_Unguarded(outcome) ==
    /\ tpc = "json"
    /\ parsed' = outcome
    /\ tpc' = "returned"
    /\ completion' = IF outcome = "text" THEN Trim(rawText) ELSE <<>>
    /\ rejected' = (outcome \in {"throws", "not a string"})
    /\ UNCHANGED <<providerId, titleImpl, rawText, fetched, generatedTitle>>
    /\ UNCHANGED beyondTitle

\* await response.json() settles: it throws, or yields data with no text, with a
\* text that is no string (trim is not a function), or with the text
ResponseJson(outcome) ==
    /\ tpc = "json"
    /\ parsed' = outcome
    /\ tpc' = "returned"
    /\ completion' = IF outcome = "text" THEN Trim(rawText) ELSE <<>>   \* text?.trim() || ""
    /\ rejected' = FALSE
    /\ UNCHANGED <<providerId, titleImpl, rawText, fetched, generatedTitle>>
    /\ UNCHANGED beyondTitle

\* generateTitle returns the cleaned completion
GenerateTitle ==
    /\ tpc = "returned"
    /\ ~rejected
    /\ tpc' = "done"
    /\ generatedTitle' = IF titleImpl = "legacy" THEN LegacyClean(completion)
                                                 ELSE cleanTitle(completion)
    /\ UNCHANGED <<providerId, titleImpl, rawText, fetched, parsed, completion, rejected>>
    /\ UNCHANGED beyondTitle

TitleInit ==
    /\ \/ providerId \in ProviderIds /\ titleImpl = NoClient
       \/ providerId = NoProvider /\ titleImpl = "legacy"   \* takes no provider argument
    /\ tpc = "start"
    /\ rawText \in RawTitles
    /\ fetched = "none"
    /\ parsed = "none"
    /\ completion = <<>>
    /\ rejected = FALSE
    /\ generatedTitle = <<>>

TitleNext ==
    \/ GetProvider
    \/ SimpleCompletion
    \/ \E outcome \in {"ok", "status", "throws"} : CompletionFetchSettles(outcome)
    \/ \E outcome \in {"text", "no text", "not a string", "throws"} : ResponseJson(outcome)
    \/ GenerateTitle

TitleStart == SessionInit /\ ClientIdle /\ TitleInit /\ RestIdle

TitleSpec == TitleStart /\ [][TitleNext]_vars

\* ------------------------------------------------------- copyLastResponse
\* the messages a transcript is made of
MessageKinds ==
    { [role |-> "user", content |-> <<"q">>],
      [role |-> "assistant", content |-> NoText],
      [role |-> "assistant", content |-> <<"r">>],
      [role |-> "assistant", content |-> <<"s">>] }

\* the transcripts a session can hold: every assistant message follows a user
\* message
Transcripts ==
    { [i \in 1..Len(shape) |->
          [id |-> HistoryId + i, role |-> shape[i].role, content |-> shape[i].content,
           timestamp |-> Now]] :
      shape \in { sh \in SeqsUpTo(MessageKinds, MaxTranscript) :
                    \A i \in 1..Len(sh) :
                        sh[i].role = "assistant" => (i > 1 /\ sh[i - 1].role = "user") } }

Undefined == [role |-> "undefined", content |-> NoText]

\* mutant: the last message of the transcript is taken, whatever its role
lastAssistantMessage_LastOfAll(msgs) ==
    IF msgs = <<>> THEN Undefined ELSE Last(msgs)

\* messages.value.filter((m) => m.role === 'assistant'), then its last element
lastAssistantMessage(msgs) ==
    LET assistantMessages == SelectSeq(msgs, LAMBDA m : m.role = "assistant")
    IN  IF assistantMessages = <<>> THEN Undefined ELSE Last(assistantMessages)

\* copyLastResponse up to its await
CopyLastResponse ==
    /\ copyPc = "start"
    /\ LET lastAssistant == lastAssistantMessage(messages)
       IN  IF lastAssistant.content = NoText       \* if (!lastAssistant?.content) return false
           THEN /\ copyPc' = "returned"
                /\ copyResult' = FALSE
                /\ writes' = writes
           ELSE /\ copyPc' = "writing"
                /\ copyResult' = copyResult
                /\ writes' = Append(writes, lastAssistant.content)
    /\ UNCHANGED messages
    /\ lastOp' = Op("copyLastResponse", NoText, NoStream, TRUE)
    /\ UNCHANGED beyondCopy

\* await navigator.clipboard.writeText(...) settles
WriteTextSettles(ok) ==
    /\ copyPc = "writing"
    /\ copyPc' = "returned"
    /\ copyResult' = ok                           \* return true / catch { return false }
    /\ lastOp' = Op("writeText", NoText, NoStream, ok)
    /\ UNCHANGED <<writes, messages>>
    /\ UNCHANGED beyondCopy

CopyInit ==
    /\ messages \in Transcripts
    /\ isStreaming = FALSE
    /\ streamError = Null
    /\ currentAssistantMessage = NoText
    /\ currentConversationId = HistoryId
    /\ streams = {}
    /\ titleJobs = {}
    /\ storeLog = <<>>
    /\ storeMark = 0
    /\ titleLog = <<>>
    /\ nextId = 0
    /\ sends = 0
    /\ tokens = 0
    /\ lastOp = Op("loadConversation", NoText, NoStream, TRUE)
    /\ copyPc = "start"
    /\ copyResult = FALSE
    /\ writes = <<>>

CopyNext ==
    \/ CopyLastResponse
    \/ \E ok \in BOOLEAN : WriteTextSettles(ok)

CopyStart ==
    CopyInit /\ ClientIdle /\ TitleIdle /\ SendIdle /\ HistoryIdle /\ SettingsInit /\ ResizeInit /\ MoreIdle

CopySpec == CopyStart /\ [][CopyNext]_vars

\* The provider client of every stream in flight eventually delivers its
\* terminal callback.
\* ------------------------------------------- sendMessage, statement by statement
\* The synchronous part of sendMessage as the statements it is made of, and the
\* promises of the history store, which settle between two tasks.

\* if (!content.trim() || isStreaming.value) return; streamError.value = null;
\* const trimmedContent = ...; const isFirstMessage = ...
Begin(content, apiKey) ==
    /\ sendPc = "idle"
    /\ sends < MaxSends \/ SendRejected(content)
    /\ IF SendRejected(content)
       THEN /\ lastOp' = Op("sendMessage", content, NoStream, FALSE)
            /\ UNCHANGED <<streamError, sendPc, sendArgs>>
       ELSE /\ streamError' = Null
            /\ sendArgs' = [content |-> content, trimmedContent |-> Trim(content),
                            apiKey |-> apiKey, isFirstMessage |-> IsFirstMessage(messages)]
            /\ sendPc' = "create"
            /\ UNCHANGED lastOp
    /\ UNCHANGED <<messages, isStreaming, currentAssistantMessage, currentConversationId,
                   streams, titleJobs, storeLog, storeMark, titleLog, nextId, sends, tokens>>
    /\ UNCHANGED <<streamCalls, settled>>
    /\ UNCHANGED beyondSend

\* if (isFirstMessage) { ... historyDb.createConversation(convId, title).catch(...) }
CreateConversation ==
    /\ sendPc = "create"
    /\ sendPc' = "push"
    /\ IF sendArgs.isFirstMessage
       THEN /\ nextId' = nextId + 1
            /\ currentConversationId' = nextId + 1
            /\ storeLog' = Append(storeLog, CreateConversationCall(nextId + 1,
                                Substring0(sendArgs.trimmedContent, TitleMax)))
       ELSE UNCHANGED <<nextId, currentConversationId, storeLog>>
    /\ UNCHANGED <<messages, isStreaming, streamError, currentAssistantMessage, streams,
                   titleJobs, storeMark, titleLog, sends, tokens, lastOp>>
    /\ UNCHANGED <<sendArgs, streamCalls, settled>>
    /\ UNCHANGED beyondSend

\* messages.value.push(userMessage)
PushUserMessage ==
    /\ sendPc = "push"
    /\ sendPc' = "save"
    /\ nextId' = nextId + 1
    /\ messages' = Append(messages, [id |-> nextId + 1, role |-> "user",
                                     content |-> sendArgs.trimmedContent, timestamp |-> Now])
    /\ UNCHANGED <<isStreaming, streamError, currentAssistantMessage, currentConversationId,
                   streams, titleJobs, storeLog, storeMark, titleLog, sends, tokens, lastOp>>
    /\ UNCHANGED <<sendArgs, streamCalls, settled>>
    /\ UNCHANGED beyondSend

\* if (currentConversationId.value) historyDb.addMessage(userMessage.id, ...).catch(...)
SaveUserMessage ==
    /\ sendPc = "save"
    /\ sendPc' = "placeholder"
    /\ storeLog' = IF currentConversationId # NoConversation
                   THEN Append(storeLog, AddMessageCall(Last(messages).id, currentConversationId,
                                                        "user", sendArgs.trimmedContent))
                   ELSE storeLog
    /\ UNCHANGED <<messages, isStreaming, streamError, currentAssistantMessage,
                   currentConversationId, streams, titleJobs, storeMark, titleLog, nextId,
                   sends, tokens, lastOp>>
    /\ UNCHANGED <<sendArgs, streamCalls, settled>>
    /\ UNCHANGED beyondSend

\* messages.value.push(assistantMessage); currentAssistantMessage.value = ''
PushPlaceholder ==
    /\ sendPc = "placeholder"
    /\ sendPc' = "flag"
    /\ nextId' = nextId + 1
    /\ messages' = Append(messages, [id |-> nextId + 1, role |-> "assistant",
                                     content |-> NoText, timestamp |-> Now])
    /\ currentAssistantMessage' = NoText
    /\ UNCHANGED <<isStreaming, streamError, currentConversationId, streams, titleJobs,
                   storeLog, storeMark, titleLog, sends, tokens, lastOp>>
    /\ UNCHANGED <<sendArgs, streamCalls, settled>>
    /\ UNCHANGED beyondSend

\* isStreaming.value = true
SetStreaming ==
    /\ sendPc = "flag"
    /\ sendPc' = "call"
    /\ isStreaming' = TRUE
    /\ UNCHANGED <<messages, streamError, currentAssistantMessage, currentConversationId,
                   streams, titleJobs, storeLog, storeMark, titleLog, nextId, sends, tokens,
                   lastOp>>
    /\ UNCHANGED <<sendArgs, streamCalls, settled>>
    /\ UNCHANGED beyondSend

\* mutant: the whole transcript, placeholder included, goes to streamChat
StreamChatMessages_WithPlaceholder(msgs) == msgs

\* messages.value.slice(0, -1)
StreamChatMessages(msgs) == Front(msgs)

\* await streamChat(apiKey, messages.value.slice(0, -1), {...}, systemPrompt), up to
\* the first await inside streamChat
CallStreamChat ==
    /\ sendPc = "call"
    /\ sendPc' = "idle"
    /\ sendArgs' = NoArgs
    /\ streamCalls' = Append(streamCalls, [apiKey |-> sendArgs.apiKey,
                                           messages |-> StreamChatMessages(messages)])
    /\ sends' = sends + 1
    /\ LET s == [sid |-> Last(messages).id, first |-> sendArgs.isFirstMessage, n |-> 0,
                 toks |-> NoText, solo |-> streams = {}, reset |-> FALSE, loaded |-> FALSE,
                 base |-> SubSeq(messages, 1, Len(messages) - 2),
                 user |-> <<messages[Len(messages) - 1]>>]
       IN  /\ lastOp' = Op("sendMessage", sendArgs.content, s, TRUE)
           /\ IF sendArgs.apiKey = ""
              THEN \* streamChat calls onError before its first await
                   /\ messages' = OnErrorMessages(messages)
                   /\ streamError' = KeyMissing
                   /\ isStreaming' = FALSE
                   /\ streams' = streams
              ELSE /\ streams' = streams \cup {s}
                   /\ UNCHANGED <<messages, streamError, isStreaming>>
    /\ UNCHANGED <<currentAssistantMessage, currentConversationId, titleJobs, storeLog,
                   storeMark, titleLog, nextId, tokens>>
    /\ UNCHANGED settled
    /\ UNCHANGED beyondSend

\* the store requests whose promise has not settled
Pending == (1..Len(storeLog)) \ DOMAIN settled

\* mutant: a rejected store request is reported like a stream error
StoreSettles_Surfaces(i, ok) ==
    /\ sendPc = "idle"
    /\ i \in Pending
    /\ settled' = [k \in DOMAIN settled \cup {i} |-> IF k = i THEN ok ELSE settled[k]]
    /\ streamError' = IF ok THEN streamError ELSE "Failed to save"
    /\ UNCHANGED <<messages, isStreaming, currentAssistantMessage, currentConversationId,
                   streams, titleJobs, storeLog, storeMark, titleLog, nextId, sends, tokens,
                   lastOp>>
    /\ UNCHANGED <<sendPc, sendArgs, streamCalls>>
    /\ UNCHANGED beyondSend

\* a promise of createConversation, addMessage or updateConversationTitle settles;
\* a rejection runs .catch((e) => console.error(...))
StoreSettles(i, ok) ==
    /\ sendPc = "idle"
    /\ i \in Pending
    /\ settled' = [k \in DOMAIN settled \cup {i} |-> IF k = i THEN ok ELSE settled[k]]
    /\ UNCHANGED sessionVars
    /\ UNCHANGED <<sendPc, sendArgs, streamCalls>>
    /\ UNCHANGED beyondSend

\* the callbacks run as tasks of their own, never inside sendMessage
SendNext ==
    \/ \E content \in Texts, apiKey \in ApiKeys : Begin(content, apiKey)
    \/ CreateConversation
    \/ PushUserMessage
    \/ SaveUserMessage
    \/ PushPlaceholder
    \/ SetStreaming
    \/ CallStreamChat
    \/ \E i \in Pending, ok \in BOOLEAN : StoreSettles(i, ok)
    \/ sendPc = "idle" /\ \E s \in streams, token \in Tokens : OnToken(s, token)
    \/ sendPc = "idle" /\ \E s \in streams : OnComplete(s)
    \/ sendPc = "idle" /\ \E s \in streams, error \in ErrorMessages : OnError(s, error)
    \/ sendPc = "idle" /\ \E j \in titleJobs, title \in TitleResults : TitleResolved(j, title)

SendSpec == Init /\ [][SendNext]_vars

\* ------------------------------------------------------- the history panel
\* Time runs in half hours.  The local calendar has one day of 25 hours and one
\* of 23 hours, as at the two changes of daylight saving time.
Hour == 2
DayMs == 24 * Hour                       \* 86400000
FirstDay == 11
MaxDays == 4
LongDay == FirstDay + 1
ShortDay == FirstDay + 2

DayLength(d) ==
    IF d = LongDay THEN DayMs + Hour ELSE IF d = ShortDay THEN DayMs - Hour ELSE DayMs

RECURSIVE Midnight(_)
\* the time of the local midnight that starts day d
Midnight(d) == IF d = 0 THEN 0 ELSE Midnight(d - 1) + DayLength(d - 1)

Midnights == {Midnight(d) : d \in 0..(FirstDay + MaxDays)}
Nows == Midnight(FirstDay)..(Midnight(FirstDay + MaxDays) - 1)

\* mutant: a rolling window, the boundary is the current time
setHours_Rolling(now) == now

\* new Date().setHours(0, 0, 0, 0): the local midnight of the day of now
setHours(now) ==
    CHOOSE m \in Midnights : m <= now /\ \A k \in Midnights : k <= now => k <= m

\* the rows getConversations returns: one conversation per age, newest first
Ages == <<0, Hour, 25 * Hour, 3 * DayMs, 10 * DayMs>>
ConversationsAt(now) ==
    [i \in 1..Len(Ages) |-> [id |-> HistoryId + i, title |-> <<"T">>,
                              created_at |-> now - Ages[Len(Ages)],
                              updated_at |-> now - Ages[i]]]

\* a conversation row
Row(id, updated) ==
    [id |-> id, title |-> <<"T">>, created_at |-> updated, updated_at |-> updated]

\* lists the panel can hold at a time: the rows by age; the same oldest first
\* with a row stamped later than now; rows on both sides of each boundary, in no
\* order, two of them updated at the same time
ConversationLists(now) ==
    LET byAge == ConversationsAt(now)
        m == setHours(now)
    IN  { byAge,
          [i \in 1..Len(byAge) |-> byAge[Len(byAge) + 1 - i]] \o <<Row(HistoryId + 9, now + Hour)>>,
          << Row(HistoryId + 11, m - 7 * DayMs), Row(HistoryId + 12, m - 1),
             Row(HistoryId + 13, now - 25 * Hour), Row(HistoryId + 14, m),
             Row(HistoryId + 15, m - DayMs - 1), Row(HistoryId + 16, m - 7 * DayMs - 1),
             Row(HistoryId + 17, now - 10 * DayMs), Row(HistoryId + 18, m - DayMs),
             Row(HistoryId + 19, m - 1) >> }

\* mutant: yesterday has no upper boundary
groupedConversations_Overlapping(list, now) ==
    LET todayStart == setHours(now)
        yesterdayStart == todayStart - DayMs
        weekStart == todayStart - 7 * DayMs
    IN  [today |-> SelectSeq(list, LAMBDA c : c.updated_at >= todayStart),
         yesterday |-> SelectSeq(list, LAMBDA c : c.updated_at >= yesterdayStart),
         lastWeek |-> SelectSeq(list, LAMBDA c : c.updated_at >= weekStart
                                                 /\ c.updated_at < yesterdayStart),
         older |-> SelectSeq(list, LAMBDA c : c.updated_at < weekStart)]

\* the computed groupedConversations
groupedConversations(list, now) ==
    LET todayStart == setHours(now)
        yesterdayStart == todayStart - DayMs
        weekStart == todayStart - 7 * DayMs
    IN  [today |-> SelectSeq(list, LAMBDA c : c.updated_at >= todayStart),
         yesterday |-> SelectSeq(list, LAMBDA c : c.updated_at >= yesterdayStart
                                                  /\ c.updated_at < todayStart),
         lastWeek |-> SelectSeq(list, LAMBDA c : c.updated_at >= weekStart
                                                 /\ c.updated_at < yesterdayStart),
         older |-> SelectSeq(list, LAMBDA c : c.updated_at < weekStart)]

\* the panel reads groupedConversations.value
GroupedConversations ==
    /\ gpc = "start"
    /\ gpc' = "done"
    /\ grouped' = groupedConversations(conversations, clock)
    /\ UNCHANGED <<clock, conversations>>
    /\ UNCHANGED beyondHistory

HistoryInit ==
    /\ clock \in Nows
    /\ conversations \in ConversationLists(clock)
    /\ grouped = NoGroups
    /\ gpc = "start"

HistoryNext == GroupedConversations

HistoryStart ==
    /\ SessionInit /\ ClientIdle /\ TitleIdle /\ CopyIdle /\ SendIdle /\ HistoryInit
    /\ SettingsInit /\ ResizeInit /\ MoreIdle

HistorySpec == HistoryStart /\ [][HistoryNext]_vars

\* ------------------------------------------------------------- useSettings
MaxInvokes == 3

\* the AppSettings objects: what reset_settings returns, and two others
Defaults == "defaults"
SettingsValues == {Defaults, "saved", "edited"}

\* what a rejected invoke carries: an Error, a string, or some other value
Failures == {[kind |-> "Error", text |-> "denied"], [kind |-> "string", text |-> "io"],
             [kind |-> "object", text |-> "-"]}

\* err instanceof Error ? err.message : String(err)
FailureMessage(err) ==
    IF err.kind = "Error" THEN err.text
    ELSE IF err.kind = "string" THEN err.text
    ELSE "[object Object]"

\* loading.value = true; error.value = null; the invoke is on its way
Invoke(command, arg) ==
    /\ invoked < MaxInvokes
    /\ invoked' = invoked + 1
    /\ loading' = TRUE
    /\ settingsError' = Null
    /\ invokes' = invokes \cup {[id |-> invoked + 1, op |-> command, arg |-> arg,
                                  before |-> settings, overlapped |-> FALSE]}
    /\ UNCHANGED <<settings, settledOp>>
    /\ UNCHANGED beyondSettings

LoadSettings == Invoke("get_settings", Null)
UpdateSettings(newSettings) == Invoke("update_settings", newSettings)
ResetSettings == Invoke("reset_settings", Null)

\* the calls still in flight have seen another one settle
Overlapped(cs) == {[c EXCEPT !.overlapped = TRUE] : c \in cs}

\* what the backend can answer a command with
Results(c) ==
    IF c.op = "get_settings" THEN SettingsValues
    ELSE IF c.op = "reset_settings" THEN {Defaults}
    ELSE {Null}

\* the await resolves: settings.value = result (or newSettings); finally
InvokeResolves(c, result) ==
    /\ c \in invokes
    /\ result \in Results(c)
    /\ settings' = IF c.op = "update_settings" THEN c.arg ELSE result
    /\ loading' = FALSE
    /\ invokes' = Overlapped(invokes \ {c})
    /\ settledOp' = [id |-> c.id, op |-> c.op, ok |-> TRUE, raised |-> FALSE, message |-> Null,
                     result |-> IF c.op = "update_settings" THEN c.arg ELSE result,
                     before |-> c.before, overlapped |-> c.overlapped]
    /\ UNCHANGED <<settingsError, invoked>>
    /\ UNCHANGED beyondSettings

\* mutant: a failure empties the held settings
InvokeRejects_ClearsSettings(c, err) ==
    /\ c \in invokes
    /\ settings' = Null
    /\ settingsError' = FailureMessage(err)
    /\ loading' = FALSE
    /\ invokes' = Overlapped(invokes \ {c})
    /\ settledOp' = [id |-> c.id, op |-> c.op, ok |-> FALSE,
                     raised |-> c.op = "update_settings",
                     message |-> FailureMessage(err), result |-> Null,
                     before |-> c.before, overlapped |-> c.overlapped]
    /\ UNCHANGED invoked
    /\ UNCHANGED beyondSettings

\* the await rejects: catch (error.value = ..., updateSettings: throw err); finally
InvokeRejects(c, err) ==
    /\ c \in invokes
    /\ settingsError' = FailureMessage(err)
    /\ loading' = FALSE
    /\ invokes' = invokes \ {c}
    /\ settledOp' = [id |-> c.id, op |-> c.op, ok |-> FALSE,
                     raised |-> c.op = "update_settings",
                     message |-> FailureMessage(err), result |-> Null,
                     before |-> c.before, overlapped |-> c.overlapped]
    /\ UNCHANGED <<settings, invoked>>
    /\ UNCHANGED beyondSettings

SettingsNext ==
    \/ LoadSettings
    \/ \E newSettings \in SettingsValues : UpdateSettings(newSettings)
    \/ ResetSettings
    \/ \E c \in invokes, result \in SettingsValues \cup {Null} : InvokeResolves(c, result)
    \/ \E c \in invokes, err \in Failures : InvokeRejects(c, err)

SettingsStart ==
    /\ SessionInit /\ ClientIdle /\ TitleIdle /\ CopyIdle /\ SendIdle /\ HistoryIdle
    /\ SettingsInit /\ ResizeInit /\ MoreIdle

SettingsSpec == SettingsStart /\ [][SettingsNext]_vars

\* --------------------------------------------------------- useWindowResize
\* Heights are counted in steps between the collapsed and the expanded height,
\* elapsed time in frames, animationDuration being MaxFrames of them.
MaxResizes == 3
MaxFrames == 2
maxHeight == 2
Heights == {1, maxHeight}

\* Math.round
Round(n, d) == (2 * n + d) \div (2 * d)

Cube(x) == x * x * x

\* Math.round(startHeight + heightDiff * easeOutCubic(progress)), the progress
\* being elapsed / animationDuration capped at 1
NewHeight(startHeight, targetHeight, elapsed) ==
    LET frames == IF elapsed > MaxFrames THEN MaxFrames ELSE elapsed
    IN  Round(startHeight * Cube(MaxFrames)
                + (targetHeight - startHeight) * (Cube(MaxFrames) - Cube(MaxFrames - frames)),
              Cube(MaxFrames))

\* animateResize up to its first await: if (isAnimating.value) return
AnimateResize(targetHeight) ==
    /\ resizes < MaxResizes
    /\ resizes' = resizes + 1
    /\ lastResize' = [id |-> resizes + 1, target |-> targetHeight, noop |-> isAnimating]
    /\ animations' = IF isAnimating
                     THEN animations
                     ELSE animations \cup {[id |-> resizes + 1, target |-> targetHeight,
                                            pc |-> "innerSize", start |-> minHeight,
                                            elapsed |-> 0]}
    /\ UNCHANGED <<isAnimating, windowHeight>>
    /\ UNCHANGED beyondResize

\* await appWindow.innerSize() resolves; isAnimating.value = true;
\* requestAnimationFrame(animate)
InnerSizeResolves(a) ==
    /\ a \in animations
    /\ a.pc = "innerSize"
    /\ IF windowHeight = a.target
       THEN /\ animations' = animations \ {a}        \* already at target
            /\ UNCHANGED isAnimating
       ELSE /\ isAnimating' = TRUE
            /\ animations' = (animations \ {a})
                                \cup {[a EXCEPT !.pc = "frame", !.start = windowHeight]}
    /\ UNCHANGED <<windowHeight, resizes, lastResize>>
    /\ UNCHANGED beyondResize

\* await appWindow.innerSize() rejects: catch { isAnimating.value = false }
InnerSizeRejects(a) ==
    /\ a \in animations
    /\ a.pc = "innerSize"
    /\ isAnimating' = FALSE
    /\ animations' = animations \ {a}
    /\ UNCHANGED <<windowHeight, resizes, lastResize>>
    /\ UNCHANGED beyondResize

\* the frame callback animate(currentTime) up to its await: setSize is issued
Animate(a, elapsed) ==
    /\ a \in animations
    /\ a.pc = "frame"
    /\ elapsed > a.elapsed
    /\ windowHeight' = NewHeight(a.start, a.target, elapsed)
    /\ animations' = (animations \ {a}) \cup {[a EXCEPT !.pc = "setSize", !.elapsed = elapsed]}
    /\ UNCHANGED <<isAnimating, resizes, lastResize>>
    /\ UNCHANGED beyondResize

\* await appWindow.setSize(...) resolves: the next frame is requested, or the
\* final setSize is issued
SetSizeResolves(a) ==
    /\ a \in animations
    /\ a.pc = "setSize"
    /\ IF a.elapsed < MaxFrames
       THEN /\ animations' = (animations \ {a}) \cup {[a EXCEPT !.pc = "frame"]}
            /\ UNCHANGED windowHeight
       ELSE /\ animations' = (animations \ {a}) \cup {[a EXCEPT !.pc = "final"]}
            /\ windowHeight' = a.target
    /\ UNCHANGED <<isAnimating, resizes, lastResize>>
    /\ UNCHANGED beyondResize

\* the final setSize and center resolve: isAnimating.value = false
FinalResolves(a) ==
    /\ a \in animations
    /\ a.pc = "final"
    /\ isAnimating' = FALSE
    /\ animations' = animations \ {a}
    /\ UNCHANGED <<windowHeight, resizes, lastResize>>
    /\ UNCHANGED beyondResize

\* a setSize or center inside animate rejects: the promise of the frame callback
\* rejects, nothing catches it, the flag stays as it is
AnimateRejects(a) ==
    /\ a \in animations
    /\ a.pc \in {"setSize", "final"}
    /\ animations' = animations \ {a}
    /\ UNCHANGED <<isAnimating, windowHeight, resizes, lastResize>>
    /\ UNCHANGED beyondResize

ResizeNext ==
    \/ \E targetHeight \in Heights : AnimateResize(targetHeight)
    \/ \E a \in animations : InnerSizeResolves(a)
    \/ \E a \in animations : InnerSizeRejects(a)
    \/ \E a \in animations, elapsed \in 1..(MaxFrames + 1) : Animate(a, elapsed)
    \/ \E a \in animations : SetSizeResolves(a)
    \/ \E a \in animations : FinalResolves(a)
    \/ \E a \in animations : AnimateRejects(a)

ResizeStart ==
    /\ SessionInit /\ ClientIdle /\ TitleIdle /\ CopyIdle /\ SendIdle /\ HistoryIdle
    /\ SettingsInit /\ ResizeInit /\ MoreIdle

ResizeSpec == ResizeStart /\ [][ResizeNext]_vars

\* --------------------------------------------------- the history database
MaxDbOps == 3
StoreOperations == {"createConversation", "addMessage", "getConversations"}

\* a store operation up to the await inside getDb: if (!db) db = await Database.load(...)
GetDb(operation) ==
    /\ dbOps < MaxDbOps
    /\ dbOps' = dbOps + 1
    /\ IF db = NoDatabase
       THEN /\ loads' = loads + 1
            /\ dbCalls' = dbCalls \cup {[id |-> dbOps + 1, operation |-> operation,
                                          load |-> loads + 1]}
            /\ UNCHANGED handed
       ELSE /\ handed' = Append(handed, [id |-> dbOps + 1, operation |-> operation,
                                         database |-> db])
            /\ UNCHANGED <<loads, dbCalls>>
    /\ UNCHANGED db
    /\ UNCHANGED beyondDb

\* Database.load resolves with a new Database object: db = ...; return db
LoadResolves(c) ==
    /\ c \in dbCalls
    /\ db' = c.load
    /\ handed' = Append(handed, [id |-> c.id, operation |-> c.operation, database |-> c.load])
    /\ dbCalls' = dbCalls \ {c}
    /\ UNCHANGED <<loads, dbOps>>
    /\ UNCHANGED beyondDb

\* Database.load rejects: getDb and the store operation reject, db stays as it was
LoadRejects(c) ==
    /\ c \in dbCalls
    /\ dbCalls' = dbCalls \ {c}
    /\ UNCHANGED <<db, loads, dbOps, handed>>
    /\ UNCHANGED beyondDb

DbNext ==
    \/ \E operation \in StoreOperations : GetDb(operation)
    \/ \E c \in dbCalls : LoadResolves(c)
    \/ \E c \in dbCalls : LoadRejects(c)

DbStart ==
    /\ SessionInit /\ ClientIdle /\ TitleIdle /\ CopyIdle /\ SendIdle /\ HistoryIdle
    /\ SettingsInit /\ ResizeInit /\ MoreIdle

DbSpec == DbStart /\ [][DbNext]_vars

\* ------------------------------------------------ the search of the panel
MaxSearches == 3

\* what the user types into the search field
SearchTexts == {<<" ">>, <<"a">>, <<"b">>}

\* the conversations table
StoredConversations ==
    << [id |-> HistoryId + 1, title |-> <<"a", "b">>, created_at |-> 3, updated_at |-> 3],
       [id |-> HistoryId + 2, title |-> <<"a">>, created_at |-> 2, updated_at |-> 2],
       [id |-> HistoryId + 3, title |-> <<"b">>, created_at |-> 1, updated_at |-> 1] >>

\* getConversations() for a blank query, searchConversations(query) otherwise:
\* WHERE title LIKE '%query%'
QueryResult(query) ==
    IF Trim(query) = NoText
    THEN StoredConversations
    ELSE SelectSeq(StoredConversations,
                   LAMBDA c : \E i \in 1..Len(c.title) :
                                 i + Len(query) - 1 <= Len(c.title)
                                 /\ SubSeq(c.title, i, i + Len(query) - 1) = query)

\* search(query) up to its await (through loadConversations when the query is blank)
Search(query) ==
    /\ Len(searched) < MaxSearches
    /\ searchQuery' = query
    /\ historyLoading' = TRUE
    /\ searched' = Append(searched, [query |-> query, outcome |-> "pending"])
    /\ queries' = queries \cup {Len(searched) + 1}
    /\ UNCHANGED conversations
    /\ UNCHANGED beyondSearch

\* the store answers: conversations.value = ...; finally loading.value = false
QueryResolves(q) ==
    /\ q \in queries
    /\ conversations' = QueryResult(searched[q].query)
    /\ historyLoading' = FALSE
    /\ queries' = queries \ {q}
    /\ searched' = [searched EXCEPT ![q].outcome = "resolved"]
    /\ UNCHANGED searchQuery
    /\ UNCHANGED beyondSearch

\* the store fails: catch logs; finally loading.value = false
QueryRejects(q) ==
    /\ q \in queries
    /\ historyLoading' = FALSE
    /\ queries' = queries \ {q}
    /\ searched' = [searched EXCEPT ![q].outcome = "rejected"]
    /\ UNCHANGED <<searchQuery, conversations>>
    /\ UNCHANGED beyondSearch

SearchNext ==
    \/ \E query \in SearchTexts : Search(query)
    \/ \E q \in queries : QueryResolves(q)
    \/ \E q \in queries : QueryRejects(q)

SearchStart ==
    /\ SessionInit /\ ClientIdle /\ TitleIdle /\ CopyIdle /\ SendIdle /\ HistoryIdle
    /\ SettingsInit /\ ResizeInit /\ MoreIdle

SearchSpec == SearchStart /\ [][SearchNext]_vars

\* every window call settles and every requested frame is run
Proceeds ==
    \E a \in animations :
        \/ InnerSizeResolves(a)
        \/ InnerSizeRejects(a)
        \/ \E elapsed \in 1..(MaxFrames + 1) : Animate(a, elapsed)
        \/ SetSizeResolves(a)
        \/ FinalResolves(a)
        \/ AnimateRejects(a)

ResizeLiveSpec == ResizeStart /\ [][ResizeNext]_vars /\ WF_vars(Proceeds)

Terminate == \E s \in streams : OnComplete(s) \/ \E error \in ErrorMessages : OnError(s, error)

LiveSpec == Init /\ [][Next]_vars /\ WF_vars(Terminate)

\* ===================================================================== claims

\* ---- helpers of the claims
TerminalCalls == {i \in 1..Len(calls) : Terminal(calls[i])}

RECURSIVE TokenText(_)
\* the concatenation of the onToken arguments of a callback sequence
TokenText(cs) ==
    IF cs = <<>> THEN <<>>
    ELSE (IF Head(cs).cb = "onToken" THEN Head(cs).arg ELSE <<>>) \o TokenText(Tail(cs))

\* the text delta a line of the response carries, read off the line as the
\* server wrote it
DeltaOf(line) ==
    IF StartsWith(line, DataPrefix) /\ ParseJson(Tail(line)).ok
    THEN ParseJson(Tail(line)).text
    ELSE <<>>

IsErrorEvent(line) ==
    StartsWith(line, DataPrefix) /\ ParseJson(Tail(line)).ok /\ ParseJson(Tail(line)).kind = "error"

RECURSIVE FullText(_)
\* the concatenation of the text deltas of all data lines of a response
FullText(lines) ==
    IF lines = <<>> THEN <<>> ELSE DeltaOf(Head(lines)) \o FullText(Tail(lines))

NoErrorEvent(lines) == \A i \in 1..Len(lines) : ~IsErrorEvent(lines[i])

CallbackOps == {"onToken", "onComplete", "onError"}

\* no reset or load fell between the send and now, and none was pending on an
\* earlier stream when the send was made
Clean(s) == s.solo /\ ~s.reset

\* the transcript descends from a loadConversation, not from an empty transcript
Loaded == currentConversationId = HistoryId

\* C1: one streamChat call delivers exactly one terminal callback (onComplete or
\* onError) when it returns, none before, and every onToken call comes before it
\* -- for every client and every outcome of the request.
C1_ExactlyOneTerminal ==
    /\ Cardinality(TerminalCalls) <= 1
    /\ \A i \in TerminalCalls : i = Len(calls)
    /\ pc = "done" <=> TerminalCalls # {}

\* C1 witness: a stream that delivered a token and then ended on an error event
C1_Witness ==
    /\ pc = "done" /\ http = "ok"
    /\ Len(calls) = 2
    /\ calls[1].cb = "onToken"
    /\ calls[2] = Error("stream error")

\* C2 (as stated): whatever the chunk boundaries, a response without error event
\* that is read to its end makes the concatenation of the onToken arguments equal
\* the concatenation of the text deltas of all its data lines, and onComplete is
\* the one last callback.
C2_TokensAreAllDeltas ==
    (pc = "done" /\ http = "ok" /\ NoErrorEvent(respLines)) =>
        /\ TokenText(calls) = FullText(respLines)
        /\ Last(calls) = Complete
        /\ Cardinality({i \in 1..Len(calls) : calls[i] = Complete}) = 1

\* The same for the lines the server ended with a newline: the unterminated tail
\* of a body is left in the buffer when the reader signals done.
ClosedLinesDelivered ==
    (pc = "done" /\ http = "ok" /\ NoErrorEvent(respLines)) =>
        /\ TokenText(calls) =
               FullText(IF respClosed \/ respLines = <<>> THEN respLines ELSE Front(respLines))
        /\ Last(calls) = Complete
        /\ Cardinality({i \in 1..Len(calls) : calls[i] = Complete}) = 1

\* C3 (as stated): at most one streamChat invocation of the session is in flight.
C3_AtMostOneStream == Cardinality(streams) <= 1

\* C4 (as stated): a callback of a stream that resetChat abandoned changes neither
\* the transcript, nor the streaming flag, nor the error field, nor the store.
C4_LateCallbacksAreNoOps ==
    [][(lastOp'.op \in CallbackOps /\ lastOp'.stream.reset)
          => UNCHANGED <<messages, isStreaming, streamError, storeLog>>]_vars

Alternates(msgs) ==
    \A i \in 1..Len(msgs) : msgs[i].role = IF i % 2 = 1 THEN "user" ELSE "assistant"

\* every message that keeps its place and changes its content is the
\* placeholder of a send in flight
OnlyPlaceholderMutates ==
    \A i \in 1..Len(messages) :
        (i <= Len(messages') /\ messages'[i].id = messages[i].id
            /\ messages'[i].content # messages[i].content)
        => /\ i = Len(messages)
           /\ messages[i].role = "assistant"
           /\ \E s \in streams : s.sid = messages[i].id

AssistantFollowsUser(msgs) ==
    \A i \in 1..Len(msgs) :
        msgs[i].role = "assistant" => (i > 1 /\ msgs[i - 1].role = "user")

OnlyLastAssistantMutates ==
    \A i \in 1..Len(messages) :
        (i <= Len(messages') /\ messages'[i].id = messages[i].id
            /\ messages'[i].content # messages[i].content)
        => /\ i = Len(messages)
           /\ messages[i].role = "assistant"
           /\ lastOp'.op = "onToken"

FailedAtOnce == lastOp.op = "sendMessage" /\ lastOp.ok /\ lastOp.stream \notin streams

\* C6: an accepted sendMessage sets isStreaming (and leaves it set unless
\* streamChat reported its error before returning), and, the provider delivering
\* its terminal callback, the session comes back to idle, on completion and on
\* error.
C6_StreamingThenIdle ==
    /\ [][(lastOp'.op = "sendMessage" /\ Trim(lastOp'.text) # NoText /\ ~isStreaming)
             => (isStreaming' \/ (FailedAtOnce' /\ streamError' = KeyMissing))]_vars
    /\ [][lastOp'.op \in {"onComplete", "onError"} => ~isStreaming']_vars
    /\ (isStreaming ~> ~isStreaming)

\* C6 witness: the session is idle again after a stream ended in onError
C6_Witness ==
    /\ lastOp.op = "onError"
    /\ ~isStreaming
    /\ streams = {}

\* C7: sendMessage with text that is empty after trim(), or while isStreaming, is
\* a no-op: transcript, flag, error, conversation id unchanged, no store request,
\* no streamChat call.
C7_RejectedSendIsNoOp ==
    [][(lastOp'.op = "sendMessage" /\ (Trim(lastOp'.text) = NoText \/ isStreaming))
          => UNCHANGED <<messages, isStreaming, streamError, currentConversationId,
                         storeLog, streams, titleJobs>>]_vars

\* C7 witness: a send of proper text was refused because a stream was running
C7_Witness ==
    /\ lastOp.op = "sendMessage"
    /\ Trim(lastOp.text) # NoText
    /\ ~lastOp.ok
    /\ isStreaming

C9_ErrorBeforeFirstToken ==
    /\ (lastOp.op = "onError" /\ lastOp.stream.n = 0 /\ ~lastOp.stream.reset) =>
          /\ messages = lastOp.stream.base \o lastOp.stream.user
          /\ ~isStreaming
          /\ streamError = lastOp.error
    /\ FailedAtOnce =>
          /\ messages = lastOp.stream.base \o lastOp.stream.user
          /\ ~isStreaming
          /\ streamError = KeyMissing

\* C10 (as stated): a send that was not given up by a reset or load, delivered
\* one or more tokens and ends in onError keeps its assistant message, whose
\* content is the concatenation of the tokens; isStreaming is false and the error
\* field is set.
C10_ErrorAfterTokens ==
    (lastOp.op = "onError" /\ lastOp.stream.n >= 1 /\ ~lastOp.stream.reset) =>
        /\ Len(messages) > 0
        /\ Last(messages).id = lastOp.stream.sid
        /\ Last(messages).content = lastOp.stream.toks
        /\ ~isStreaming
        /\ streamError = lastOp.error

\* the lines of the response that reach the line loop: all but an unterminated
\* last one
ClosedLines == IF respClosed \/ respLines = <<>> THEN respLines ELSE Front(respLines)

StreamError == Error("stream error")

\* C11: in every client an error event that the line loop parsed makes onError
\* the last callback of the stream: no onToken and no onComplete comes after it,
\* whether further data lines follow in the same chunk or in later chunks; and a
\* body that was read to its end and holds an error event ended in that onError.
C11_ErrorEventEndsStream ==
    /\ \A i \in 1..Len(calls) : calls[i] = StreamError => (i = Len(calls) /\ pc = "done")
    /\ (pc = "done" /\ http = "ok" /\ ~NoErrorEvent(ClosedLines)) => Last(calls) = StreamError

\* C11 witness: an error event followed by a text delta, read to the end
C11_Witness ==
    /\ pc = "done" /\ http = "ok"
    /\ Len(respLines) = 2 /\ respClosed
    /\ IsErrorEvent(respLines[1])
    /\ DeltaOf(respLines[2]) # <<>>
    /\ calls = <<StreamError>>
    /\ wire # <<>>

\* C12 (as stated): a non-2xx response yields exactly one onError and no other
\* callback; its message is the message of the error body, and 'HTTP error
\* {status}' when (and only when) the body cannot be parsed.
C12_ErrorStatusAsStated ==
    (pc = "done" /\ http = "status") =>
        /\ Len(calls) = 1
        /\ calls[1].cb = "onError"
        /\ calls[1].arg = (IF errorBody = "<html>" THEN HttpError ELSE ErrorDataMessage(errorBody))

\* C12 (amended): a non-2xx response yields exactly one onError and no other
\* callback; its message is the error.message of the body when the body parses
\* and carries a non-empty one, and 'HTTP error {status}' otherwise.
C12_ErrorStatus ==
    (pc = "done" /\ http = "status") =>
        /\ Len(calls) = 1
        /\ calls[1].cb = "onError"
        /\ calls[1].arg = (IF errorBody \in {"<html>", "{}", "{error:{message:''}}"}
                           THEN HttpError ELSE "quota")
        /\ wire = Body(respLines, respClosed)

\* C12 witness: a non-2xx response whose body parses and has no error.message
C12_Witness ==
    /\ pc = "done" /\ http = "status"
    /\ errorBody = "{}"
    /\ calls = <<Error(HttpError)>>
    /\ FullText(respLines) # <<>>

RECURSIVE UpToSeparator(_)
UpToSeparator(parts) ==
    IF parts = <<>> \/ Head(parts) \in {":", "/"} THEN <<>>
    ELSE <<Head(parts)>> \o UpToSeparator(Tail(parts))

\* the hostname of a URL: what stands between the scheme and the port or path
Hostname(url) == UpToSeparator(Tail(url))

IsLoopback(host) == host \in {<<"localhost">>, <<"127.0.0.1">>}

\* streamChat refused the call before its first await: onError, no request
RefusedAtOnce ==
    /\ pc = "done" /\ http = "none"
    /\ calls = <<Error(KeyMissing)>>
    /\ requests = <<>>

\* C13 (as stated): in every client, streamChat with an empty API key against a
\* base URL that does not name the local machine calls onError before it reaches
\* an await and issues no request.
C13_EmptyKeyRefused ==
    (pc # "start" /\ config.apiKey = "" /\ ~IsLoopback(Hostname(Endpoint(provider, config))))
        => RefusedAtOnce

\* The same with 'local' as the client decides it: the text of the base URL
\* contains 'localhost' or '127.0.0.1'.
EmptyKeyRefusedUnlessIncludesLocal ==
    (pc # "start" /\ config.apiKey = "" /\ ~IsLocalEndpoint(Endpoint(provider, config)))
        => RefusedAtOnce

\* C14 (as stated): the OpenAI-style client sends a request with an empty key
\* only to a base URL whose hostname is a loopback address, refuses an empty key
\* for every other base URL with onError and no request, and never attaches an
\* Authorization header when the key is empty.
C14_EmptyKeyOnlyToLoopback ==
    (provider = "openai" /\ config.apiKey = "") =>
        /\ requests # <<>> => IsLoopback(Hostname(BaseUrl(config)))
        /\ (pc # "start" /\ ~IsLoopback(Hostname(BaseUrl(config)))) => RefusedAtOnce
        /\ \A i \in 1..Len(requests) : ~requests[i].authorization

\* What the client does keep: an empty key is sent only where the base URL
\* contains 'localhost' or '127.0.0.1', without Authorization header, and a key
\* that is set travels in the header.
OpenAiKeyAndHeader ==
    provider = "openai" =>
        /\ (config.apiKey = "" /\ requests # <<>>) => IsLocalEndpoint(BaseUrl(config))
        /\ \A i \in 1..Len(requests) : requests[i].authorization <=> config.apiKey # ""

\* a data line whose payload JSON.parse rejects
IsMalformed(line) ==
    StartsWith(line, DataPrefix) /\ Trim(Tail(line)) # <<>> /\ ~ParseJson(Tail(line)).ok

\* the line loop came across a malformed data line
SawMalformed == \E k \in 1..Len(ClosedLines) : IsMalformed(ClosedLines[k])

\* C15 (as stated): a data line whose payload fails to parse is skipped: the
\* stream still ends with the one onComplete when the reader signals done, and
\* the text deltas of all well-formed data lines of the response are delivered.
C15_MalformedLineSkipped ==
    (pc = "done" /\ http = "ok" /\ NoErrorEvent(respLines) /\ SawMalformed) =>
        /\ Last(calls) = Complete
        /\ Cardinality(TerminalCalls) = 1
        /\ TokenText(calls) = FullText(respLines)

\* The same for a response whose lines all end with a newline.
MalformedLineSkippedInClosedBody ==
    (pc = "done" /\ http = "ok" /\ NoErrorEvent(respLines) /\ SawMalformed) =>
        /\ Last(calls) = Complete
        /\ Cardinality(TerminalCalls) = 1
        /\ TokenText(calls) = FullText(ClosedLines)

\* the store requests a step issues
Issued == SubSeq(storeLog', Len(storeLog) + 1, Len(storeLog'))

IsCreate(r) == r.call = "createConversation"

\* createConversation requests since the last resetChat/loadConversation
CreatedSinceReset ==
    Cardinality({i \in (storeMark + 1)..Len(storeLog) : IsCreate(storeLog[i])})

StoreIds == {storeLog[i].id : i \in 1..Len(storeLog)} \cup {messages[i].id : i \in 1..Len(messages)}

\* C16: createConversation is requested exactly by an accepted sendMessage that
\* finds the transcript empty, once, with an id that was not in use and the first
\* 50 characters of the trimmed text as title; between two consecutive
\* resetChat/loadConversation calls it is requested at most once.
C16_CreateOncePerConversation ==
    [][/\ (\E i \in 1..Len(Issued) : IsCreate(Issued[i]))
            <=> (lastOp'.op = "sendMessage" /\ lastOp'.ok /\ messages = <<>>)
       /\ \A i \in 1..Len(Issued) : IsCreate(Issued[i]) =>
             /\ i = 1
             /\ Issued[i].id \notin StoreIds \cup {NoConversation, HistoryId}
             /\ Issued[i].id = currentConversationId'
             /\ Issued[i].content = Substring0(Trim(lastOp'.text), TitleMax)
             /\ Len(Issued[i].content) <= TitleMax
       /\ CreatedSinceReset' <= 1]_vars

\* C16 witness: a second send of a conversation whose first send had a text longer
\* than a title and ended in an error; the conversation was created once
C16_Witness ==
    /\ lastOp.op = "sendMessage" /\ lastOp.ok /\ ~lastOp.stream.first
    /\ storeMark = 0
    /\ Len(storeLog) = 3
    /\ IsCreate(storeLog[1])
    /\ Len(storeLog[1].content) = TitleMax
    /\ Len(messages[1].content) > TitleMax
    /\ streamError = Null

\* the step invokes generateTitle
TitleInvoked == titleLog' # titleLog

\* C17 (as stated): when the first exchange of a new conversation completes,
\* generateTitle is invoked, once, with the first user message; no conversation
\* gets a second invocation; the completion of a later exchange and a send that
\* ends in error invoke nothing.
C17_TitleOncePerConversation ==
    [][/\ (lastOp'.op = "onComplete" /\ lastOp'.stream.first /\ ~lastOp'.stream.reset) =>
             titleLog' = Append(titleLog, [conv |-> currentConversationId,
                                           user |-> lastOp'.stream.user[1].content,
                                           sid |-> lastOp'.stream.sid])
       /\ TitleInvoked => (lastOp'.op = "onComplete" /\ lastOp'.stream.first)
       /\ \A i, j \in 1..Len(titleLog') : titleLog'[i].conv = titleLog'[j].conv => i = j]_vars

\* The first conjunct for a first exchange that no abandoned stream interfered
\* with and whose reply is not empty.
TitleAfterNonEmptyReply ==
    [][(lastOp'.op = "onComplete" /\ lastOp'.stream.first /\ Clean(lastOp'.stream)
          /\ lastOp'.stream.n >= 1) =>
             titleLog' = Append(titleLog, [conv |-> currentConversationId,
                                           user |-> lastOp'.stream.user[1].content,
                                           sid |-> lastOp'.stream.sid])]_vars

\* No conversation gets a second generateTitle invocation.
TitleAtMostOncePerConversation ==
    \A i, j \in 1..Len(titleLog) : titleLog[i].conv = titleLog[j].conv => i = j

\* C18: when generateTitle resolves to the empty string no store request is
\* issued, so the stored title stays the provisional one; when it resolves to a
\* non-empty string, updateConversationTitle is requested once, with that string,
\* for the conversation the title was generated for; nothing else requests it.
C18_EmptyTitleNotStored ==
    [][/\ lastOp'.op = "titleResolved" =>
             \E j \in titleJobs \ titleJobs' :
                 storeLog' = IF lastOp'.text = NoText
                             THEN storeLog
                             ELSE Append(storeLog, UpdateTitleCall(j.conv, lastOp'.text))
       /\ \A i \in 1..Len(Issued) :
             Issued[i].call = "updateConversationTitle" => lastOp'.op = "titleResolved"]_vars

\* C18 witness: a title was generated and its update requested, the conversation
\* still being the current one
C18_Witness ==
    /\ lastOp.op = "titleResolved"
    /\ lastOp.text # NoText
    /\ Last(storeLog) = UpdateTitleCall(currentConversationId, lastOp.text)
    /\ \E i \in 1..Len(storeLog) : IsCreate(storeLog[i]) /\ storeLog[i].id = currentConversationId

\* the other case: generateTitle resolved to the empty string
C18_WitnessEmpty ==
    /\ lastOp.op = "titleResolved"
    /\ lastOp.text = NoText
    /\ titleLog # <<>>
    /\ \A i \in 1..Len(storeLog) : storeLog[i].call # "updateConversationTitle"

RECURSIVE StripLeadingQuotes(_)
StripLeadingQuotes(s) ==
    IF s # <<>> /\ Head(s) \in Quotes THEN StripLeadingQuotes(Tail(s)) ELSE s

RECURSIVE StripTrailingQuotes(_)
StripTrailingQuotes(s) ==
    IF s # <<>> /\ Last(s) \in Quotes THEN StripTrailingQuotes(Front(s)) ELSE s

\* the title the claim describes: the prefix gone, the quote characters around
\* the title gone, everything inside it kept
SurroundingQuotesStripped(raw) ==
    Trim(StripTrailingQuotes(StripLeadingQuotes(Trim(StripTitlePrefix(Trim(raw))))))

\* the completion request succeeded and carried a text
CompletionSucceeded == fetched = "ok" /\ parsed = "text"

\* C19 (as stated): the title generateTitle returns for a raw completion text is
\* that text without a leading 'Title:' (in any case) and without the quote
\* characters that surround it; quotes and apostrophes inside the title stay.
C19_OnlySurroundingQuotesRemoved ==
    (tpc = "done" /\ CompletionSucceeded) => generatedTitle = SurroundingQuotesStripped(rawText)

\* What cleanTitle computes: the described title with every quote and apostrophe
\* removed, the inner ones included.
AllQuotesRemoved ==
    (tpc = "done" /\ CompletionSucceeded /\ titleImpl # "legacy") =>
        /\ generatedTitle = Trim(RemoveQuotes(SurroundingQuotesStripped(rawText)))
        /\ \A i \in 1..Len(generatedTitle) : generatedTitle[i] \notin Quotes

\* C20: the simpleCompletion of every client never rejects to its caller: after a
\* non-2xx response, after an exception of the request or of reading the body it
\* has returned the empty string, after a success the trimmed completion text.
C20_SimpleCompletionNeverThrows ==
    (titleImpl \in Providers /\ tpc \in {"returned", "done"}) =>
        /\ ~rejected
        /\ completion = IF CompletionSucceeded THEN Trim(rawText) ELSE <<>>

\* C20 witness: reading the body of a good response threw, the caller got ''
C20_Witness ==
    /\ titleImpl \in Providers
    /\ tpc = "done"
    /\ fetched = "ok" /\ parsed = "throws"
    /\ Trim(rawText) # <<>>
    /\ completion = <<>> /\ generatedTitle = <<>>
    /\ ~rejected

\* the success case: text with blanks around it came back trimmed
C20_WitnessSuccess ==
    /\ titleImpl \in Providers
    /\ tpc = "returned"
    /\ CompletionSucceeded
    /\ completion # <<>> /\ completion # rawText

\* generateTitle has got past its getProvider call, or was thrown out of it
Resolved == providerId # NoProvider /\ tpc # "start"

\* C24: getProvider is a pure lookup: 'gemini', 'openai' and 'anthropic' resolve
\* to their own client, 'custom' to the client 'openai' resolves to, and every
\* other identifier raises an error and yields no client; the call changes
\* nothing but what its caller holds.
C24_GetProviderLookup ==
    /\ [](Resolved =>
            /\ providerId \in {"gemini", "openai", "anthropic"} =>
                   titleImpl = providerId /\ ~rejected
            /\ providerId = "custom" => titleImpl = "openai" /\ ~rejected
            /\ providerId \notin {"gemini", "openai", "anthropic", "custom"} =>
                   /\ titleImpl = NoClient /\ rejected
                   /\ tpc = "returned" /\ fetched = "none")
    /\ [][(tpc = "start" /\ tpc' # "start" /\ providerId # NoProvider) =>
             /\ UNCHANGED <<providerId, rawText, fetched, parsed, completion, generatedTitle>>
             /\ UNCHANGED beyondTitle]_vars
    /\ getProvider("custom") = getProvider("openai")
    /\ \A id \in ProviderIds : getProvider(getProvider(id)) = getProvider(id)

\* C24 witness: an identifier outside the list was refused without a request
C24_Witness ==
    /\ providerId = UnknownId
    /\ tpc = "returned" /\ rejected
    /\ titleImpl = NoClient /\ fetched = "none"

\* 'custom' ran the OpenAI-style client to the end
C24_WitnessCustom ==
    /\ providerId = "custom" /\ titleImpl = "openai"
    /\ tpc = "done" /\ CompletionSucceeded

\* the events of a send, as the changes they make
Requested(call) == Len(storeLog') = Len(storeLog) + 1 /\ Last(storeLog').call = call
PlaceholderAppended ==
    Len(messages') = Len(messages) + 1 /\ Last(messages').role = "assistant"
FlagSet == ~isStreaming /\ isStreaming'
StreamChatCalled == Len(streamCalls') = Len(streamCalls) + 1
IsPlaceholder(m) == m.role = "assistant" /\ m.content = NoText

\* C25: within an accepted send the conversation creation request (first message
\* only) comes first, then the request to store the user message, then the
\* placeholder is appended, then the streaming flag is set, then streamChat is
\* called; the requests are still unsettled when the next step runs, and
\* streamChat gets the transcript without the placeholder.
C25_SendOrder ==
    /\ [][Requested("createConversation") =>
             /\ messages = <<>> /\ messages' = <<>>
             /\ ~isStreaming' /\ streamCalls' = streamCalls
             /\ Last(storeLog').conv = currentConversationId']_vars
    /\ [][(Requested("addMessage") /\ Last(storeLog').role = "user") =>
             /\ Last(messages').role = "user"
             /\ Last(storeLog').id = Last(messages').id
             /\ Last(storeLog').content = Last(messages').content
             /\ Len(messages') = 1 =>
                    /\ Len(storeLog) > 0
                    /\ Last(storeLog) = CreateConversationCall(Last(storeLog').conv,
                                             Substring0(Last(messages').content, TitleMax))
                    /\ Len(storeLog) \in Pending
             /\ ~isStreaming' /\ streamCalls' = streamCalls]_vars
    /\ [][PlaceholderAppended =>
             /\ IsPlaceholder(Last(messages'))
             /\ Last(messages).role = "user"
             /\ currentConversationId # NoConversation =>
                    /\ Len(storeLog) > 0
                    /\ Last(storeLog) = AddMessageCall(Last(messages).id, currentConversationId,
                                                       "user", Last(messages).content)
                    /\ Len(storeLog) \in Pending
             /\ ~isStreaming' /\ streamCalls' = streamCalls]_vars
    /\ [][FlagSet =>
             /\ messages' = messages /\ IsPlaceholder(Last(messages))
             /\ streamCalls' = streamCalls]_vars
    /\ [][StreamChatCalled =>
             /\ isStreaming
             /\ IsPlaceholder(Last(messages))
             /\ Last(streamCalls').messages = Front(messages)
             /\ Last(Last(streamCalls').messages).role = "user"
             /\ storeLog' = storeLog
             /\ currentConversationId # NoConversation => Len(storeLog) \in Pending]_vars

\* C25 witness: the first send of a conversation has called streamChat with the
\* user message alone, both of its store requests still unsettled
C25_Witness ==
    /\ sendPc = "idle" /\ isStreaming
    /\ Len(messages) = 2 /\ IsPlaceholder(messages[2])
    /\ Len(storeLog) = 2
    /\ storeLog[1].call = "createConversation" /\ storeLog[2].call = "addMessage"
    /\ Pending = {1, 2}
    /\ streamCalls = <<[apiKey |-> "key", messages |-> <<messages[1]>>]>>

\* a later send of the same conversation: no creation request, three messages passed
C25_WitnessLater ==
    /\ sendPc = "idle" /\ isStreaming
    /\ Len(streamCalls) = 2 /\ Len(streamCalls[2].messages) = 3
    /\ Cardinality({i \in 1..Len(storeLog) : storeLog[i].call = "createConversation"}) = 1

\* the store requests that were rejected
Failed == {i \in DOMAIN settled : ~settled[i]}
FailedCalls == {storeLog[i].call : i \in Failed}

\* the next statement of a running send
SendStep ==
    \/ CreateConversation
    \/ PushUserMessage
    \/ SaveUserMessage
    \/ PushPlaceholder
    \/ SetStreaming
    \/ CallStreamChat

\* a send that passes the guard
Accepted ==
    \E content \in Texts, apiKey \in ApiKeys : ~SendRejected(content) /\ Begin(content, apiKey)

\* C26: a rejected createConversation, addMessage or updateConversationTitle
\* changes neither the transcript nor the streaming flag nor the error field;
\* after it a running send still goes on to its streamChat call and a later
\* send is accepted as if nothing had failed.
C26_StoreFailuresSwallowed ==
    /\ [][settled' # settled => UNCHANGED <<messages, isStreaming, streamError>>]_vars
    /\ []((Failed # {} /\ sendPc # "idle") => ENABLED SendStep)
    /\ []((Failed # {} /\ sendPc = "idle" /\ ~isStreaming /\ sends < MaxSends) =>
             ENABLED Accepted)

\* C26 witness: all three kinds of request were rejected, and the send after
\* them was accepted and is streaming, no error shown
C26_Witness ==
    /\ FailedCalls = {"createConversation", "addMessage", "updateConversationTitle"}
    /\ Len(streamCalls) = 2
    /\ sendPc = "idle" /\ isStreaming /\ streamError = Null
    /\ Len(messages) = 4

\* an onComplete callback has just run
Completed == lastOp' # lastOp /\ lastOp'.op = "onComplete"

\* C27: onComplete submits the final assistant message to the store exactly when
\* its content is non-empty and a conversation id is set; no addMessage request
\* carries empty content, whatever the role.
C27_NoEmptyMessageStored ==
    /\ [][Completed =>
             /\ storeLog' # storeLog <=>
                    /\ currentConversationId # NoConversation
                    /\ messages # <<>>
                    /\ Last(messages).role = "assistant"
                    /\ Last(messages).content # NoText
             /\ storeLog' # storeLog =>
                    storeLog' = Append(storeLog,
                        AddMessageCall(Last(messages).id, currentConversationId, "assistant",
                                       Last(messages).content))]_vars
    /\ [](\A i \in 1..Len(storeLog) :
             storeLog[i].call = "addMessage" => storeLog[i].content # NoText)

\* C27 witness: a stream completed without a token, the placeholder stayed empty,
\* and the store got the user message only
C27_Witness ==
    /\ lastOp.op = "onComplete" /\ lastOp.stream.n = 0
    /\ currentConversationId # NoConversation
    /\ messages # <<>> /\ IsPlaceholder(Last(messages))
    /\ \A i \in 1..Len(storeLog) : storeLog[i].role # "assistant"

\* the reply had content and was stored
C27_WitnessStored ==
    /\ lastOp.op = "onComplete"
    /\ storeLog # <<>>
    /\ Last(storeLog).role = "assistant" /\ Last(storeLog).content # NoText
    /\ Last(storeLog).id = Last(messages).id

\* the conversation last updated the given time before the evaluation
Aged(age) == CHOOSE i \in 1..Len(conversations) : conversations[i].updated_at = clock - age
InGroup(i, group) == \E k \in 1..Len(group) : group[k] = conversations[i]
GroupsOf(i) ==
    {g \in {"today", "yesterday", "lastWeek", "older"} : InGroup(i, grouped[g])}

\* the midnight that starts the day of the evaluation, read off the calendar
LocalMidnight == CHOOSE m \in Midnights : m <= clock /\ ~\E k \in Midnights : m < k /\ k <= clock

\* the groups are cut at local midnight of today, at that midnight minus 24
\* hours and at that midnight minus 7 times 24 hours
MidnightBoundaries ==
    \A i \in 1..Len(conversations) :
        LET u == conversations[i].updated_at IN
        GroupsOf(i) = {IF u >= LocalMidnight THEN "today"
                       ELSE IF u >= LocalMidnight - 24 * Hour THEN "yesterday"
                       ELSE IF u >= LocalMidnight - 7 * 24 * Hour THEN "lastWeek"
                       ELSE "older"}

\* C28 (as stated): at every current time the conversation updated 25 hours
\* before it is in the group yesterday and the one updated 10 days before it in
\* the group older, the groups being cut at the midnight boundaries.
C28_GroupingAsStated ==
    gpc = "done" =>
        /\ GroupsOf(Aged(25 * Hour)) = {"yesterday"}
        /\ GroupsOf(Aged(10 * 24 * Hour)) = {"older"}
        /\ MidnightBoundaries

\* C28 (amended): with the groups cut at the midnight boundaries, the
\* conversation updated 10 days before now is always in older, and the one
\* updated 25 hours before now is in yesterday when now is at least one hour
\* past local midnight and in lastWeek during the first hour of the day.
C28_Grouping ==
    gpc = "done" =>
        /\ GroupsOf(Aged(25 * Hour)) =
              {IF clock - LocalMidnight >= Hour THEN "yesterday" ELSE "lastWeek"}
        /\ GroupsOf(Aged(10 * 24 * Hour)) = {"older"}
        /\ MidnightBoundaries

\* C28 witness: half an hour past midnight, 25 hours ago was the day before
\* yesterday
C28_Witness ==
    /\ gpc = "done"
    /\ clock - LocalMidnight < Hour
    /\ GroupsOf(Aged(25 * Hour)) = {"lastWeek"}
    /\ GroupsOf(Aged(Hour)) = {"yesterday"}

\* the scenario at a later hour of the day
C28_WitnessDaytime ==
    /\ gpc = "done"
    /\ clock - LocalMidnight >= Hour
    /\ GroupsOf(Aged(Hour)) = {"today"}
    /\ GroupsOf(Aged(25 * Hour)) = {"yesterday"}
    /\ GroupsOf(Aged(10 * 24 * Hour)) = {"older"}

\* a settings operation has just settled
Settled == settledOp' # settledOp
Failure == Settled /\ ~settledOp'.ok

\* C29: a settings operation that fails leaves the held settings as they are,
\* puts the failure message into error and sets loading to false;
\* updateSettings also re-raises the failure to its caller; the held settings
\* change only when a backend call has succeeded, to the value it brought.
C29_FailureKeepsSettings ==
    /\ [][Failure =>
             /\ settings' = settings
             /\ ~settledOp'.overlapped => settings' = settledOp'.before
             /\ settingsError' = settledOp'.message /\ settingsError' # Null
             /\ ~loading'
             /\ settledOp'.raised <=> settledOp'.op = "update_settings"]_vars
    /\ [][settings' # settings =>
             /\ Settled /\ settledOp'.ok
             /\ settings' = settledOp'.result]_vars
    /\ [][(Settled /\ settledOp'.ok /\ settledOp'.op = "update_settings") =>
             \E c \in invokes : c.id = settledOp'.id /\ settings' = c.arg]_vars

\* C29 witness: settings were loaded, then an update failed: the loaded value is
\* still held, the message is shown and the caller got the failure
C29_Witness ==
    /\ settledOp.op = "update_settings" /\ ~settledOp.ok /\ settledOp.raised
    /\ ~settledOp.overlapped
    /\ settings = "saved" /\ settledOp.before = "saved"
    /\ settingsError = "denied" /\ ~loading

\* a failed load on a fresh instance leaves null
C29_WitnessLoad ==
    /\ settledOp.op = "get_settings" /\ ~settledOp.ok /\ ~settledOp.raised
    /\ settings = Null /\ settingsError = "io" /\ ~loading

\* a failed reset
C29_WitnessReset ==
    /\ settledOp.op = "reset_settings" /\ ~settledOp.ok /\ ~settledOp.raised
    /\ settings = "edited" /\ settingsError = "[object Object]" /\ ~loading

\* the animation loops that are issuing setSize calls
Looping == {a \in animations : a.pc \in {"frame", "setSize", "final"}}

\* an animateResize call has just been made
ResizeCalled == resizes' = resizes + 1

\* C30 (as stated): however the animateResize calls interleave, at most one
\* animation loop is issuing setSize calls at a time, and a call made while an
\* animation is in progress returns without doing anything.
C30_OneAnimationAtATime ==
    /\ [](Cardinality(Looping) <= 1)
    /\ [][(ResizeCalled /\ isAnimating) =>
             /\ lastResize'.noop
             /\ UNCHANGED <<animations, isAnimating, windowHeight>>]_vars

\* What the isAnimating flag does give: a call made while the flag is set
\* returns at once and changes nothing.
CallWhileFlagSetIsNoOp ==
    [][(ResizeCalled /\ isAnimating) =>
         /\ lastResize'.noop
         /\ UNCHANGED <<animations, isAnimating, windowHeight>>]_vars

\* two loops run at once, started by two calls made before the first
\* innerSize() answered
C30_TwoLoops ==
    /\ Cardinality(Looping) = 2
    /\ \A a \in Looping : a.start = minHeight /\ a.target = maxHeight

\* the Database objects the store operations ran on
Instances == {handed[i].database : i \in 1..Len(handed)}

\* C31 (as stated): however the store operations interleave, Database.load is
\* called at most once and every operation runs on the same Database object.
C31_SingleConnection ==
    /\ loads <= 1
    /\ Cardinality(Instances) <= 1

\* createConversation and addMessage of a first send, issued back to back, have
\* each loaded a Database of their own
C31_TwoLoads ==
    /\ loads = 2
    /\ Len(handed) = 2
    /\ handed[1].operation = "createConversation" /\ handed[2].operation = "addMessage"
    /\ handed[1].database # handed[2].database

\* Once a load has resolved, no further load is started for as long as db is set.
LoadOnlyWhileUnset == [][loads' # loads => db = NoDatabase]_vars

\* no send is streaming and no stream is in flight
SessionIdle == ~isStreaming /\ streams = {}

\* C32 (as stated): whenever the session is idle the transcript holds no
\* assistant message with empty content; a stream that completes without a
\* token leaves no empty placeholder behind.
C32_NoEmptyAssistantWhenIdle ==
    SessionIdle => \A i \in 1..Len(messages) : ~IsPlaceholder(messages[i])

\* a stream completed without a token and the session is idle with the empty
\* placeholder as last message
C32_PlaceholderLeft ==
    /\ SessionIdle
    /\ lastOp.op = "onComplete" /\ lastOp.stream.n = 0
    /\ messages # <<>> /\ IsPlaceholder(Last(messages))

\* After onError no empty placeholder is the last message.
NoPlaceholderAfterError ==
    lastOp.op = "onError" => (messages = <<>> \/ ~IsPlaceholder(Last(messages)))

\* a callback of a stream that a loadConversation has abandoned has just run
LateAfterLoad == lastOp' # lastOp /\ lastOp'.op \in CallbackOps /\ lastOp'.stream.loaded

\* the messages that came from the store
LoadedPart(msgs) == SelectSeq(msgs, LAMBDA m : m.id > HistoryId)

\* C33 (as stated): the late callbacks of a stream that was in flight when
\* loadConversation(id, msgs) was called leave the loaded messages as they are
\* (none changed, none removed), leave the conversation id alone and issue no
\* addMessage against id.
C33_LoadedTranscriptUntouched ==
    [][LateAfterLoad =>
         /\ LoadedPart(messages') = LoadedPart(messages)
         /\ currentConversationId' = currentConversationId
         /\ \A i \in (Len(storeLog) + 1)..Len(storeLog') :
                ~(storeLog'[i].call = "addMessage" /\ storeLog'[i].conv = HistoryId)]_vars

\* a late token has replaced the content of the loaded assistant message
C33_LoadedMessageOverwritten ==
    /\ lastOp.op = "onToken" /\ lastOp.stream.loaded
    /\ Len(messages) = 2 /\ messages[2].id = HistoryId + 2
    /\ messages[2].content # <<"r">>

\* the addMessage requests issued so far
AddRequests == {i \in 1..Len(storeLog) : storeLog[i].call = "addMessage"}

\* C34 (as stated): over every sequence of sends, resets, loads and stream
\* callbacks addMessage is issued at most once per message id, and never for a
\* message that came from the store, so no insert repeats a primary key.
C34_AddMessageOncePerId ==
    /\ \A i, k \in AddRequests : storeLog[i].id = storeLog[k].id => i = k
    /\ \A i \in AddRequests : storeLog[i].id < HistoryId

\* the same assistant message was submitted by the completion of an abandoned
\* stream and again by the completion of its own stream
C34_SubmittedTwice ==
    \E i, k \in AddRequests :
        /\ i < k /\ storeLog[i].id = storeLog[k].id
        /\ storeLog[i].role = "assistant"

\* a message loaded from the store was submitted again
C34_LoadedSubmitted ==
    \E i \in AddRequests : storeLog[i].id = HistoryId + 2

\* the transcript is what a loadConversation put there, possibly extended by
\* sends: store ids lie above HistoryId, a reset leaves no conversation id
FromLoad ==
    \/ messages = <<>> /\ currentConversationId = HistoryId
    \/ messages # <<>> /\ messages[1].id > HistoryId

\* C35 (as stated): after loadConversation(id, msgs), the empty msgs included,
\* and until the next resetChat or loadConversation, every message that is
\* persisted is persisted against id and no createConversation is requested.
C35_SendsGoToLoadedConversation ==
    [][FromLoad =>
         \A i \in (Len(storeLog) + 1)..Len(storeLog') :
            /\ ~IsCreate(storeLog'[i])
            /\ storeLog'[i].call = "addMessage" => storeLog'[i].conv = HistoryId]_vars

\* a conversation without messages was loaded and the send after it created a
\* new conversation
C35_NewConversationAfterEmptyLoad ==
    /\ lastOp.op = "sendMessage" /\ lastOp.ok
    /\ lastOp.stream.base = <<>>
    /\ storeMark < Len(storeLog) /\ IsCreate(storeLog[storeMark + 1])
    /\ currentConversationId # HistoryId

\* With a loaded transcript that is not empty the claim holds.
SendsGoToLoadedConversationUnlessEmpty ==
    [][(FromLoad /\ messages # <<>>) =>
         \A i \in (Len(storeLog) + 1)..Len(storeLog') :
            /\ ~IsCreate(storeLog'[i])
            /\ storeLog'[i].call = "addMessage" => storeLog'[i].conv = HistoryId]_vars

\* an updateConversationTitle request has just been issued
TitleWritten ==
    Len(storeLog') = Len(storeLog) + 1 /\ Last(storeLog').call = "updateConversationTitle"

\* C36: updateConversationTitle is called with the conversation id that was
\* current when the completion callback that asked for the title ran, and that
\* callback asked with the first user message of the transcript of that
\* conversation; a resetChat, loadConversation or new first send before the
\* title arrives does not redirect it.
C36_TitleGoesToItsConversation ==
    /\ [][TitleInvoked =>
             /\ titleLog' = Append(titleLog, Last(titleLog'))
             /\ lastOp'.op = "onComplete"
             /\ Last(titleLog').conv = currentConversationId
             /\ Last(titleLog').conv # NoConversation
             /\ Last(titleLog').user = messages[1].content]_vars
    /\ [][TitleWritten =>
             \E j \in titleJobs \ titleJobs' :
                /\ Last(storeLog').conv = titleLog[j.k].conv
                /\ Last(storeLog').id = titleLog[j.k].conv]_vars

\* C36 witness: the title arrived after the session had moved on to another
\* conversation and was written to the one it was generated for
C36_Witness ==
    /\ lastOp.op = "titleResolved"
    /\ storeLog # <<>> /\ Last(storeLog).call = "updateConversationTitle"
    /\ currentConversationId \notin {NoConversation, Last(storeLog).conv}
    /\ \E k \in 1..Len(titleLog) : titleLog[k].conv = Last(storeLog).conv

\* the title arrived after a resetChat
C36_WitnessReset ==
    /\ lastOp.op = "titleResolved"
    /\ storeLog # <<>> /\ Last(storeLog).call = "updateConversationTitle"
    /\ currentConversationId = NoConversation

GroupNames == {"today", "yesterday", "lastWeek", "older"}

\* how often a row occurs in a group
Occurrences(c, group) == Cardinality({k \in 1..Len(group) : group[k] = c})

\* the rows of the list that are in the group, in the order of the list
Restriction(group) ==
    SelectSeq(conversations, LAMBDA c : \E k \in 1..Len(group) : group[k] = c)

\* C37: the four groups of groupedConversations partition the list: every
\* conversation is in exactly one group, once, and inside each group the
\* conversations stand in the order they have in the list.
C37_GroupsPartitionList ==
    gpc = "done" =>
        /\ \A i \in 1..Len(conversations) :
              \E g \in GroupNames :
                 /\ Occurrences(conversations[i], grouped[g]) = 1
                 /\ \A h \in GroupNames \ {g} : Occurrences(conversations[i], grouped[h]) = 0
        /\ \A g \in GroupNames : grouped[g] = Restriction(grouped[g])

\* C37 witness: an unordered list with rows next to every boundary was grouped,
\* one group holding several rows
C37_Witness ==
    /\ gpc = "done"
    /\ Len(conversations) = 9
    /\ \E i \in 1..8 : conversations[i].updated_at < conversations[i + 1].updated_at
    /\ \A g \in GroupNames : grouped[g] # <<>>
    /\ \E g \in GroupNames : Len(grouped[g]) >= 3

\* every search call made so far got its answer
AllResolved == \A i \in 1..Len(searched) : searched[i].outcome = "resolved"

\* C38 (as stated): when overlapping search calls have all settled, the list
\* holds the result of the query issued last, whose text is in searchQuery, in
\* whatever order the answers came; and loading is false only when no call is
\* pending.
C38_LastQueryWins ==
    /\ (searched # <<>> /\ AllResolved) =>
          /\ searchQuery = Last(searched).query
          /\ conversations = QueryResult(searchQuery)
    /\ ~historyLoading => queries = {}

\* two searches overlapped, the answer to the first came last and stayed in the
\* list
C38_StaleResult ==
    /\ Len(searched) = 2 /\ AllResolved
    /\ searchQuery = <<"b">>
    /\ conversations = QueryResult(<<"a">>)
    /\ conversations # QueryResult(<<"b">>)

\* loading went off while a call was still pending
C38_LoadingOffWhilePending == ~historyLoading /\ queries # {}

\* Without overlap the claim holds: a call that was alone in flight leaves its
\* result in the list and loading off.
LoneQueryWins ==
    [][(queries = {Len(searched)} /\ queries' = {} /\ searched'[Len(searched)].outcome = "resolved") =>
         /\ conversations' = QueryResult(searchQuery')
         /\ ~historyLoading']_vars

\* C39 (as stated): every animation that animateResize starts ends with
\* isAnimating false, also when setSize or center fails inside a frame, so
\* that the flag never stays set for good.
C39_AnimationEnds == isAnimating ~> ~isAnimating

\* a window call failed inside a frame: no call is in flight any more and the
\* flag is still set
C39_FlagStuck ==
    /\ isAnimating
    /\ animations = {}

\* from then on every animateResize call returns at once
StuckFlagIgnoresCalls ==
    [][(isAnimating /\ animations = {}) => (isAnimating' /\ animations' = {})]_vars

\* C21: resetChat can be called in every state, a stream in flight included, and
\* leaves transcript empty, error null, streaming false and conversation id
\* null; applied twice it gives what it gives applied once.
C21_ResetIdempotent ==
    /\ lastOp.op = "resetChat" =>
          /\ messages = <<>>
          /\ streamError = Null
          /\ ~isStreaming
          /\ currentConversationId = NoConversation
    /\ resetChat(resetChat(Refs)) = resetChat(Refs)
    /\ ENABLED ResetChat

\* C21 witness: a reset in the middle of a stream that had delivered a token
C21_Witness ==
    /\ lastOp.op = "resetChat"
    /\ \E s \in streams : s.reset /\ s.n >= 1
    /\ Refs = resetChat(Refs)

\* the transcript reproduces a list of history messages
Reproduces(msgs, historyMessages) ==
    /\ Len(msgs) = Len(historyMessages)
    /\ \A i \in 1..Len(historyMessages) :
          /\ msgs[i].id = historyMessages[i].id
          /\ msgs[i].role = historyMessages[i].role
          /\ msgs[i].content = historyMessages[i].content
          /\ msgs[i].timestamp = historyMessages[i].created_at

\* C22: right after loadConversation(id, msgs) the transcript has the length and
\* order of msgs, each message with the id, role and content of its row and
\* created_at as timestamp; the conversation id is id, streaming is false and the
\* error field is null.
C22_LoadRoundTrip ==
    /\ \A h \in HistoryLists : Reproduces([i \in 1..Len(h) |-> ToMessage(h[i])], h)
    /\ lastOp.op = "loadConversation" =>
          /\ \E h \in HistoryLists : Reproduces(messages, h)
          /\ currentConversationId = HistoryId
          /\ ~isStreaming
          /\ streamError = Null

\* C22 witness: a stored conversation of two messages was loaded over a session
\* that was streaming
C22_Witness ==
    /\ lastOp.op = "loadConversation"
    /\ Len(messages) = 2
    /\ messages[2].timestamp = HistoryId + 12
    /\ \E s \in streams : s.loaded

\* the transcript holds an assistant message and the most recent one has content
HasResponse ==
    \E i \in 1..Len(messages) :
        /\ messages[i].role = "assistant"
        /\ messages[i].content # NoText
        /\ \A j \in (i + 1)..Len(messages) : messages[j].role # "assistant"

\* what copyLastResponse returned and wrote, against the transcript
CopyOutcome ==
    /\ (copyPc = "returned" /\ copyResult) => (HasResponse /\ Len(writes) = 1)
    /\ (copyPc # "start" /\ ~HasResponse) => (copyPc = "returned" /\ ~copyResult /\ writes = <<>>)
    /\ (copyPc # "start" /\ HasResponse) =>
          \E i \in 1..Len(messages) :
              /\ messages[i].role = "assistant"
              /\ \A j \in (i + 1)..Len(messages) : messages[j].role # "assistant"
              /\ writes = <<messages[i].content>>

\* C23: copyLastResponse returns true only when the transcript holds an assistant
\* message, the most recent one has content and the clipboard write succeeded;
\* without a response it returns false and attempts no write; it returns false
\* when the write throws; the text written is that content; the transcript never
\* changes.
C23_CopyLastResponse ==
    /\ []CopyOutcome
    /\ [][copyPc # "idle" => UNCHANGED messages]_vars
    /\ [][(copyPc = "writing" /\ copyPc' = "returned") => (copyResult' <=> lastOp'.ok)]_vars

\* C23 witness: the most recent assistant message is empty while an earlier one
\* is not: false, nothing written
C23_Witness ==
    /\ copyPc = "returned" /\ ~copyResult /\ writes = <<>>
    /\ Len(messages) >= 4
    /\ messages[2].content # NoText
    /\ messages[4].role = "assistant" /\ messages[4].content = NoText

\* the write of an existing response threw: false
C23_WitnessWriteThrows ==
    /\ copyPc = "returned" /\ ~copyResult /\ Len(writes) = 1
    /\ Last(messages).role = "user"

TypeOK ==
    /\ isStreaming \in BOOLEAN
    /\ sends \in 0..MaxSends
    /\ \A i \in 1..Len(messages) : messages[i].role \in {"user", "assistant"}
====
